---- MODULE Spec2Model ----
(***************************************************************************)
(* Revenue_scan: the leakage detection engine.                             *)
(*                                                                         *)
(*   backend/services/enhanced_leakage_analyzer.py  EnhancedLeakageAnalyzer *)
(*   backend/api/routes/upload_routes.py            upload_file and        *)
(*                                                  _analyze_data_for_leakages *)
(*   backend/services/alert_service.py              calculate_metric_value *)
(*                                                                         *)
(* A DataFrame is a record [columns, dtypes, data]: the column names in    *)
(* order, the dtype of each column ("float64" or "object") and the rows,   *)
(* each a tuple of cells.  A cell is a record [kind, val]: kind "num" with *)
(* an integer value, "null" (NaN / None), "str" (a text value, val its     *)
(* code) or "list" (an unhashable Python object, val its code).            *)
(* Money is counted in cents; a Python float is a record [nan, c].         *)
(* Strings are Python strings: Len, SubSeq and \o act on them.             *)
(***************************************************************************)
EXTENDS Integers, Sequences, FiniteSets, TLC

VARIABLES
    df,        \* the loaded DataFrame
    pc,        \* what the caller has done with it so far
    columns,   \* the last result of detect_columns
    report,    \* the last result of analyze_complete
    previous,  \* the result of the analyze_complete run before that one
    upload,    \* the last result of upload_file
    call,      \* a call of the alert service on its own: the function, its arguments
    result,    \* what that call returned
    alerts,    \* the rows of the alerts table, in the order they were inserted
    triggered, \* the last result of evaluate_alerts_on_upload
    conversations, \* ConversationManager.conversations
    added,     \* how many messages were added for each user since their last clear
    sent,      \* the chat requests each user has made
    handlers,  \* the chat_with_ai handlers that await the chatbot
    users,     \* the rows of the users table
    granted,   \* the ids whose role 'admin' comes from an administrator (or the start)
    reply      \* the last request to a route of the users table and its answer

engine_vars == <<df, pc, columns, report, previous, upload>>
service_vars == <<call, result>>

alert_vars == <<alerts, triggered>>

chat_vars == <<conversations, added, sent, handlers>>

user_vars == <<users, granted, reply>>

vars == <<engine_vars, service_vars, alert_vars, chat_vars, user_vars>>

----------------------------------------------------------------------------
(* Bounds of the model *)

\* rows of a general dataset
MaxRows == 3
\* rows of a customer/revenue dataset
MaxCustomerRows == 6
\* columns of a dataset that has no rows
MaxColumns == 2
\* distinct outcomes of one str(uuid.uuid4())[:8] draw
IdSpace == 2
\* rows of a long revenue dataset, and refunds in it
MaxLongRows == 21
MaxRefunds == 2

----------------------------------------------------------------------------
(* Python strings *)

UpperLetters == "ABCDEFGHIJKLMNOPQRSTUVWXYZ"
LowerLetters == "abcdefghijklmnopqrstuvwxyz"

\* str.lower() on one character
LowerChar(c) ==
    IF \E i \in 1..Len(UpperLetters) : SubSeq(UpperLetters, i, i) = c
    THEN LET i == CHOOSE j \in 1..Len(UpperLetters) : SubSeq(UpperLetters, j, j) = c
         IN  SubSeq(LowerLetters, i, i)
    ELSE c

RECURSIVE str_lower(_)
str_lower(s) ==
    IF s = "" THEN ""
    ELSE LowerChar(SubSeq(s, 1, 1)) \o str_lower(SubSeq(s, 2, Len(s)))

\* s.replace(old, new) for a one-character old
RECURSIVE str_replace(_, _, _)
str_replace(s, old, new) ==
    IF s = "" THEN ""
    ELSE (IF SubSeq(s, 1, 1) = old THEN new ELSE SubSeq(s, 1, 1))
         \o str_replace(SubSeq(s, 2, Len(s)), old, new)

\* Python's  k in s  on strings
str_in(k, s) ==
    \E i \in 1..(Len(s) - Len(k) + 1) : SubSeq(s, i, i + Len(k) - 1) = k

----------------------------------------------------------------------------
(* Column classifier of the enhanced analyzer *)

revenue_keywords ==
    << "revenue", "sales", "income", "amount", "total", "price", "payment",
       "received", "collection", "receipt", "billing", "invoice", "charge",
       "gross", "net", "proceeds", "earning", "turnover", "value" >>

cost_keywords ==
    << "cost", "expense", "cogs", "spend", "payment", "payable", "expenditure",
       "overhead", "outflow", "disbursement", "liability", "purchase" >>

discount_keywords ==
    << "discount", "rebate", "reduction", "markdown", "allowance",
       "concession", "offer", "promo", "coupon", "voucher", "deal" >>

quantity_keywords ==
    << "quantity", "qty", "units", "count", "number", "volume", "items",
       "pieces", "orders", "transactions", "sold" >>

date_keywords ==
    << "date", "time", "day", "month", "year", "period", "timestamp",
       "created", "modified", "transaction", "order_date", "invoice_date" >>

customer_keywords ==
    << "customer", "client", "buyer", "account", "name", "company",
       "organization", "user", "member", "subscriber" >>

product_keywords ==
    << "product", "item", "sku", "service", "description", "category",
       "type", "model", "variant", "article" >>

profit_keywords ==
    << "profit", "margin", "markup", "net_income", "earnings", "gain" >>

refund_keywords ==
    << "refund", "return", "chargeback", "reversal", "cancellation", "void" >>

RoleNames ==
    << "revenue", "cost", "discount", "quantity", "date", "customer",
       "product", "profit", "refund" >>

Keywords(role) ==
    CASE role = "revenue"  -> revenue_keywords
      [] role = "cost"     -> cost_keywords
      [] role = "discount" -> discount_keywords
      [] role = "quantity" -> quantity_keywords
      [] role = "date"     -> date_keywords
      [] role = "customer" -> customer_keywords
      [] role = "product"  -> product_keywords
      [] role = "profit"   -> profit_keywords
      [] role = "refund"   -> refund_keywords

normalize(col_name) ==
    str_replace(str_replace(str_lower(col_name), "_", " "), "-", " ")

\* the loop of fuzzy_match_column from keyword i on: the first hit returns True
RECURSIVE fuzzy_match_from(_, _, _)
fuzzy_match_from(col_lower, keywords, i) ==
    IF i > Len(keywords) THEN FALSE
    ELSE IF str_in(keywords[i], col_lower) \/ str_in(col_lower, keywords[i]) THEN TRUE
    ELSE fuzzy_match_from(col_lower, keywords, i + 1)

\* the mutant: only  keyword in col_lower  is tested
fuzzy_match_column_one_way(col_name, keywords) ==
    \E i \in 1..Len(keywords) : str_in(keywords[i], normalize(col_name))

fuzzy_match_column(col_name, keywords) ==
    fuzzy_match_from(normalize(col_name), keywords, 1)

----------------------------------------------------------------------------
(* Column sets of _analyze_data_for_leakages (the upload pipeline) *)

upload_revenue_keywords ==
    << "revenue", "sales", "income", "amount", "total", "price", "value",
       "payment", "receipt", "earning", "proceeds", "gross", "billing", "invoice" >>

upload_cost_keywords ==
    << "cost", "expense", "spend", "payment", "cogs", "overhead",
       "operating", "payroll", "rent", "utility", "fee", "charge" >>

upload_quantity_keywords ==
    << "quantity", "qty", "units", "count", "volume", "items" >>

upload_discount_keywords ==
    << "discount", "rebate", "refund", "return", "credit", "adjustment" >>

\* any(keyword in col.lower() for keyword in keywords)
any_keyword_in(col, keywords) ==
    \E i \in 1..Len(keywords) : str_in(keywords[i], str_lower(col))

----------------------------------------------------------------------------
(* The datasets the model loads *)

\* every column name a dataset of the model may use
ColumnPool ==
    { "Revenue", "Cost", "Discount", "Qty", "Product", "Customer", "Payment",
      "Sales_Rep", "Unit-Price", "Net_Income", "ID", "e", "Notes" }

Num(v) == [kind |-> "num", val |-> v]
Null == [kind |-> "null", val |-> 0]
Str(k) == [kind |-> "str", val |-> k]
List(k) == [kind |-> "list", val |-> k]

Range(f) == { f[i] : i \in DOMAIN f }

\* the rows a schema allows: one cell per column, drawn from the column's cells
RowsOf(schema) ==
    { row \in [1..Len(schema.columns) -> UNION Range(schema.cells)] :
        \A i \in 1..Len(schema.columns) : row[i] \in schema.cells[i] }

DataFrames(schema, max_rows) ==
    { [columns |-> schema.columns, dtypes |-> schema.dtypes, data |-> d] :
        d \in UNION { [1..n -> RowsOf(schema)] : n \in 0..max_rows } }

GeneralSchemas ==
    { [columns |-> << "Revenue" >>,
       dtypes  |-> << "float64" >>,
       cells   |-> << {Num(-50), Num(100), Null} >>],
      [columns |-> << "Revenue", "Cost" >>,
       dtypes  |-> << "float64", "float64" >>,
       cells   |-> << {Num(100), Null}, {Num(10), Null} >>],
      [columns |-> << "Sales_Rep", "Revenue", "Product" >>,
       dtypes  |-> << "object", "float64", "object" >>,
       cells   |-> << {Str(1)}, {Num(-50), Num(100)}, {Str(1), List(1)} >>],
      [columns |-> << "Revenue", "Discount" >>,
       dtypes  |-> << "float64", "float64" >>,
       cells   |-> << {Num(0), Num(100)}, {Num(-30), Num(30)} >>],
      [columns |-> << "Payment", "Qty" >>,
       dtypes  |-> << "float64", "float64" >>,
       cells   |-> << {Num(100)}, {Num(-1), Num(0), Num(5)} >>],
      [columns |-> << "Payment" >>,
       dtypes  |-> << "float64" >>,
       cells   |-> << {Num(100), Null} >>] }

GeneralDataFrames ==
    UNION { DataFrames(schema, MaxRows) : schema \in GeneralSchemas }

\* customer/revenue datasets: every row is a sale to a new customer, but the last
\* one may be a second sale to customer 1
RECURSIVE CustomerRows(_, _)
CustomerRows(n, last) ==
    IF n = 0 THEN { << >> }
    ELSE { Append(d, << c, v >>) :
             d \in CustomerRows(n - 1, last),
             c \in IF n = last THEN {Str(1), Str(n)} ELSE {Str(n)},
             v \in {Num(-50), Num(100)} }

CustomerDataFrames ==
    { [columns |-> << "Customer", "Revenue" >>,
       dtypes  |-> << "object", "float64" >>,
       data    |-> d] :
        d \in UNION { CustomerRows(n, n) : n \in (MaxCustomerRows - 1)..MaxCustomerRows } }

\* long revenue datasets: k refunds of 50 followed by sales of 100, and the
\* dataset [100, -50, 200]
LongDataFrames ==
    { [columns |-> << "Revenue" >>,
       dtypes  |-> << "float64" >>,
       data    |-> [r \in 1..n |-> << IF r <= k THEN Num(-50) ELSE Num(100) >>]] :
        n \in 1..MaxLongRows, k \in 0..MaxRefunds }
    \cup { [columns |-> << "Revenue" >>,
            dtypes  |-> << "float64" >>,
            data    |-> << << Num(100) >>, << Num(-50) >>, << Num(200) >> >>] }

\* datasets with no rows: any distinct column names, any dtypes
EmptyDataFrames ==
    UNION { { [columns |-> c, dtypes |-> t, data |-> << >>] :
                c \in { s \in [1..n -> ColumnPool] : \A i, j \in 1..n : i # j => s[i] # s[j] },
                t \in [1..n -> {"float64", "object"}] } : n \in 0..MaxColumns }

----------------------------------------------------------------------------
(* pandas: DataFrame and Series *)

NRows(d) == Len(d.data)

ColumnIndex(d, col) == CHOOSE i \in 1..Len(d.columns) : d.columns[i] = col

\* df[col]
Column(d, col) == [r \in 1..NRows(d) |-> d.data[r][ColumnIndex(d, col)]]

\* pd.api.types.is_numeric_dtype(df[col])
is_numeric_dtype(d, col) == d.dtypes[ColumnIndex(d, col)] = "float64"

\* the non-null values of a numeric Series, in order
Values(s) ==
    LET nums == SelectSeq(s, LAMBDA c : c.kind = "num")
    IN  [i \in 1..Len(nums) |-> nums[i].val]

RECURSIVE SumSeq(_)
SumSeq(xs) == IF xs = << >> THEN 0 ELSE xs[1] + SumSeq(Tail(xs))

\* Series.sum(): NaN is skipped, the empty sum is 0
series_sum(s) == SumSeq(Values(s))

\* sum of squares of the non-null values
series_sumsq(s) == LET xs == Values(s) IN SumSeq([i \in 1..Len(xs) |-> xs[i] * xs[i]])

\* (mask).sum() where hits are the values the mask holds for: NaN compares False
CountWhere(s, hits) == Cardinality({ i \in 1..Len(s) : s[i].kind = "num" /\ s[i].val \in hits })

\* Series.isnull().sum()
null_count_of(s) == Cardinality({ i \in 1..Len(s) : s[i].kind = "null" })

Abs(x) == IF x < 0 THEN -x ELSE x

RECURSIVE Flatten(_)
Flatten(ss) == IF ss = << >> THEN << >> ELSE ss[1] \o Flatten(Tail(ss))

\* the first numeric column among cols, "" when there is none:
\* next((c for c in cols if c in df.columns and is_numeric_dtype(df[c])), None)
first_numeric(d, cols) ==
    LET numeric == SelectSeq(cols, LAMBDA c : is_numeric_dtype(d, c))
    IN  IF numeric = << >> THEN "" ELSE numeric[1]

----------------------------------------------------------------------------
(* Python floats, in cents *)

Float(c) == [nan |-> FALSE, c |-> c]
NaN == [nan |-> TRUE, c |-> 0]

\* a + b
FloatAdd(a, b) == IF a.nan \/ b.nan THEN NaN ELSE Float(a.c + b.c)

\* a == b: NaN equals nothing, itself included
FloatEq(a, b) == ~a.nan /\ ~b.nan /\ a.c = b.c

\* a >= b: every comparison with NaN is False
FloatGe(a, b) == ~a.nan /\ ~b.nan /\ a.c >= b.c

\* floor of the square root of n < 2^31, by bisection: lo^2 <= n < hi^2
RECURSIVE IsqrtBetween(_, _, _)
IsqrtBetween(n, lo, hi) ==
    IF hi - lo <= 1 THEN lo
    ELSE LET mid == (lo + hi) \div 2
         IN  IF mid * mid <= n THEN IsqrtBetween(n, mid, hi)
             ELSE IsqrtBetween(n, lo, mid)

Isqrt(n) == IsqrtBetween(n, 0, IF n < 46340 THEN n + 1 ELSE 46341)

\* a finding as an analyzer appends it; AssignIds sets the id drawn for it.
\* description and recommendation are text rendered from these fields.
Finding(type, column, amount, severity, category, affected_rows) ==
    [id |-> 0, type |-> type, column |-> column, amount |-> amount,
     severity |-> severity, category |-> category, status |-> "active",
     affected_rows |-> affected_rows]

----------------------------------------------------------------------------
(* EnhancedLeakageAnalyzer *)

\* fuzzy_match_column on every name of the pool, evaluated once
fuzzy_matches ==
    [col \in ColumnPool |->
        [role \in Range(RoleNames) |-> fuzzy_match_column(col, Keywords(role))]]

detect_columns(d) ==
    [role \in Range(RoleNames) |->
        SelectSeq(d.columns, LAMBDA col : fuzzy_matches[col][role])]

\* the mutant: the severity thresholds are inclusive (>= 10, >= 5)
negative_revenue_of_inclusive(d, col) ==
    LET s == Column(d, col)
        negative_count == CountWhere(s, { v \in Range(Values(s)) : v < 0 })
        negative_amount == Abs(SumSeq(SelectSeq(Values(s), LAMBDA v : v < 0)))
        severity == IF 100 * negative_count >= 10 * NRows(d) THEN "critical"
                    ELSE IF 100 * negative_count >= 5 * NRows(d) THEN "high"
                    ELSE "medium"
    IN  IF is_numeric_dtype(d, col) /\ negative_count > 0
        THEN << Finding("Negative Revenue", col, Float(125 * negative_amount),
                        severity, "Revenue Loss", negative_count) >>
        ELSE << >>

\* the body of the loop of analyze_negative_revenue for one column
negative_revenue_of(d, col) ==
    LET s == Column(d, col)
        negative_count == CountWhere(s, { v \in Range(Values(s)) : v < 0 })
        negative_amount == Abs(SumSeq(SelectSeq(Values(s), LAMBDA v : v < 0)))
        severity == IF 100 * negative_count > 10 * NRows(d) THEN "critical"
                    ELSE IF 100 * negative_count > 5 * NRows(d) THEN "high"
                    ELSE "medium"
    IN  IF is_numeric_dtype(d, col) /\ negative_count > 0
        THEN << Finding("Negative Revenue", col, Float(125 * negative_amount),
                        severity, "Revenue Loss", negative_count) >>
        ELSE << >>

analyze_negative_revenue(d, revenue_cols) ==
    Flatten([i \in 1..Len(revenue_cols) |-> negative_revenue_of(d, revenue_cols[i])])

\* the body of the loop of analyze_excessive_discounts for one column;
\* discount_percentage is pct_num / pct_den
excessive_discounts_of(d, col, revenue_cols) ==
    LET s == Column(d, col)
        n == Len(Values(s))
        total_discounts == Abs(series_sum(s))
        \* abs(x) > abs(mean) * 2, the mean being sum / n
        high_discount_count ==
            CountWhere(s, { v \in Range(Values(s)) : n > 0 /\ Abs(v) * n > 2 * Abs(series_sum(s)) })
        first_rev_col == first_numeric(d, revenue_cols)
        total_revenue == IF first_rev_col = "" THEN 0
                         ELSE series_sum(Column(d, first_rev_col))
        guarded == /\ revenue_cols # << >>
                   /\ total_discounts > 0
                   /\ first_rev_col # ""
                   /\ total_revenue > 0
        pct_num == IF guarded THEN 100 * total_discounts ELSE 0
        pct_den == IF guarded THEN total_revenue ELSE 1
    IN  IF /\ is_numeric_dtype(d, col)
           /\ total_discounts > 0
           /\ \/ pct_num > 15 * pct_den
              \/ 10 * high_discount_count > NRows(d)
        THEN << Finding("Excessive Discounts", col, Float(100 * total_discounts),
                        IF pct_num > 20 * pct_den THEN "high" ELSE "medium",
                        "Pricing Strategy", high_discount_count) >>
        ELSE << >>

analyze_excessive_discounts(d, discount_cols, revenue_cols) ==
    Flatten([i \in 1..Len(discount_cols) |->
                excessive_discounts_of(d, discount_cols[i], revenue_cols)])

\* avg_value * null_count of a numeric column, avg_value being sum / n (NaN when n = 0)
mean_times(s, k) ==
    IF Len(Values(s)) = 0 THEN NaN
    ELSE Float((100 * series_sum(s) * k) \div Len(Values(s)))

\* the body of the loop of analyze_missing_data for one critical column
missing_data_of(d, col, revenue_cols, cost_cols) ==
    LET s == Column(d, col)
        null_count == null_count_of(s)
        in_revenue == \E i \in 1..Len(revenue_cols) : revenue_cols[i] = col
        in_cost == \E i \in 1..Len(cost_cols) : cost_cols[i] = col
        estimate == mean_times(s, null_count)
    IN  IF null_count > 0
        THEN << Finding("Missing Data", col,
                        IF in_revenue /\ is_numeric_dtype(d, col) /\ ~estimate.nan
                        THEN estimate ELSE Float(0),
                        IF in_revenue THEN "high" ELSE IF in_cost THEN "medium" ELSE "low",
                        "Data Quality", null_count) >>
        ELSE << >>

analyze_missing_data(d, revenue_cols, cost_cols) ==
    LET critical_cols == revenue_cols \o cost_cols
    IN  Flatten([i \in 1..Len(critical_cols) |->
                    missing_data_of(d, critical_cols[i], revenue_cols, cost_cols)])

\* df.duplicated() hashes every cell: an unhashable one raises TypeError
duplicated_raises(d) ==
    \E r \in 1..NRows(d) : \E i \in 1..Len(d.columns) : d.data[r][i].kind = "list"

\* df.duplicated(): the rows equal to an earlier row
duplicated(d) == { r \in 1..NRows(d) : \E q \in 1..(r - 1) : d.data[q] = d.data[r] }

\* df.duplicated(keep=False): the rows equal to another row
duplicated_keep_false(d) ==
    { r \in 1..NRows(d) : \E q \in 1..NRows(d) : q # r /\ d.data[q] = d.data[r] }

\* df[mask][col].sum()
masked_sum(d, mask, col) ==
    LET s == Column(d, col)
    IN  series_sum(SelectSeq([r \in 1..NRows(d) |->
                                 IF r \in mask THEN s[r] ELSE Null],
                             LAMBDA c : c.kind = "num"))

\* the mutant: a finding is reported whenever duplicate_count >= 0
analyze_duplicates_always(d, revenue_cols) ==
    LET duplicate_count == Cardinality(duplicated(d))
        first_rev_col == first_numeric(d, revenue_cols)
        duplicate_amount ==
            IF revenue_cols # << >> /\ first_rev_col # ""
            THEN 50 * masked_sum(d, duplicated_keep_false(d), first_rev_col)
            ELSE 0
    IN  IF duplicate_count >= 0
        THEN << Finding("Duplicate Transactions", "All Columns",
                        Float(Abs(duplicate_amount)), "high", "Data Quality",
                        duplicate_count) >>
        ELSE << >>

analyze_duplicates(d, revenue_cols) ==
    LET duplicate_count == Cardinality(duplicated(d))
        first_rev_col == first_numeric(d, revenue_cols)
        \* duplicate_rows[first_rev_col].sum() / 2, in cents
        duplicate_amount ==
            IF revenue_cols # << >> /\ first_rev_col # ""
            THEN 50 * masked_sum(d, duplicated_keep_false(d), first_rev_col)
            ELSE 0
    IN  IF duplicate_count > 0
        THEN << Finding("Duplicate Transactions", "All Columns",
                        Float(Abs(duplicate_amount)), "high", "Data Quality",
                        duplicate_count) >>
        ELSE << >>

\* df.groupby(key_col) hashes the keys: an unhashable one raises TypeError
groupby_raises(d, key_col) ==
    \E r \in 1..NRows(d) : Column(d, key_col)[r].kind = "list"

\* the rows of the group of row r under df.groupby(key_col): null keys form no group
group_rows(d, key_col, r) ==
    LET keys == Column(d, key_col)
    IN  IF keys[r].kind = "null" THEN {}
        ELSE { q \in 1..NRows(d) : keys[q] = keys[r] }

\* the first row of each group
group_heads(d, key_col) ==
    { r \in 1..NRows(d) : /\ group_rows(d, key_col, r) # {}
                          /\ \A q \in group_rows(d, key_col, r) : r <= q }

\* the values of value_col in the group of row r
group_series(d, key_col, value_col, r) ==
    LET s == Column(d, value_col)
        rows == group_rows(d, key_col, r)
    IN  SelectSeq([q \in 1..NRows(d) |-> IF q \in rows THEN s[q] ELSE Null],
                  LAMBDA c : c.kind = "num")

\* cv > 20 and count > 2 and mean > 0 for one group, with n = count, total = sum and
\* sumsq = sum of squares: std is the sample deviation, std^2 = (n sumsq - total^2) / (n (n - 1))
inconsistent_group(n, total, sumsq) ==
    /\ n > 2
    /\ total > 0
    /\ 25 * n * (n * sumsq - total * total) > (n - 1) * total * total

\* (optimal_price - mean) * count = 0.5 * std * count, in cents
group_loss(n, total, sumsq) ==
    (Isqrt((10000 * (n * sumsq - total * total)) \div (n * (n - 1))) * n) \div 2

analyze_pricing_inconsistencies(d, product_cols, revenue_cols) ==
    IF product_cols = << >> \/ revenue_cols = << >> THEN << >>
    ELSE
    LET product_col == product_cols[1]
        revenue_col == revenue_cols[1]
        count(r) == Len(group_series(d, product_col, revenue_col, r))
        total(r) == series_sum(group_series(d, product_col, revenue_col, r))
        sumsq(r) == series_sumsq(group_series(d, product_col, revenue_col, r))
        inconsistent == { r \in group_heads(d, product_col) :
                            inconsistent_group(count(r), total(r), sumsq(r)) }
        estimated_loss ==
            SumSeq([r \in 1..NRows(d) |->
                      IF r \in inconsistent
                      THEN group_loss(count(r), total(r), sumsq(r)) ELSE 0])
        affected ==
            SumSeq([r \in 1..NRows(d) |-> IF r \in inconsistent THEN count(r) ELSE 0])
    IN  IF /\ is_numeric_dtype(d, revenue_col)
           /\ ~groupby_raises(d, product_col)
           /\ inconsistent # {}
        THEN << Finding("Pricing Inconsistencies", product_col \o ", " \o revenue_col,
                        Float(IF estimated_loss > 0 THEN estimated_loss ELSE 0),
                        "medium", "Pricing Strategy", affected) >>
        ELSE << >>

\* top / total * 100 > limit in float64: x / 0 is inf, -inf or NaN and does not raise
pct_exceeds(top, total, limit) ==
    IF total = 0 THEN top > 0
    ELSE IF total > 0 THEN 100 * top > limit * total
    ELSE 100 * top < limit * total

analyze_customer_concentration(d, customer_cols, revenue_cols) ==
    IF customer_cols = << >> \/ revenue_cols = << >> THEN << >>
    ELSE
    LET customer_col == customer_cols[1]
        revenue_col == revenue_cols[1]
        heads == group_heads(d, customer_col)
        \* customer_revenue: the revenue summed per customer
        revenue_of(r) == series_sum(group_series(d, customer_col, revenue_col, r))
        total_revenue == SumSeq([r \in 1..NRows(d) |->
                                    IF r \in heads THEN revenue_of(r) ELSE 0])
        \* customer_revenue.index[0]: the largest sum, the first key among equal sums
        keys == Column(d, customer_col)
        top == CHOOSE r \in heads :
                  \A q \in heads : \/ revenue_of(q) < revenue_of(r)
                                   \/ /\ revenue_of(q) = revenue_of(r)
                                      /\ keys[r].val <= keys[q].val
    IN  IF /\ is_numeric_dtype(d, revenue_col)
           /\ ~groupby_raises(d, customer_col)
           /\ Cardinality(heads) > 5
           /\ pct_exceeds(revenue_of(top), total_revenue, 30)
        THEN << Finding("Customer Concentration Risk", customer_col \o ", " \o revenue_col,
                        Float(50 * revenue_of(top)), "high", "Business Risk",
                        Cardinality(group_rows(d, customer_col, top))) >>
        ELSE << >>

\* the six analyzers in the order analyze_complete calls them; ids are not drawn yet
enhanced_findings(d, cols) ==
    analyze_negative_revenue(d, cols["revenue"])
    \o analyze_excessive_discounts(d, cols["discount"], cols["revenue"])
    \o analyze_missing_data(d, cols["revenue"], cols["cost"])
    \o analyze_duplicates(d, cols["revenue"])
    \o analyze_pricing_inconsistencies(d, cols["product"], cols["revenue"])
    \o analyze_customer_concentration(d, cols["customer"], cols["revenue"])

\* the mutant: the findings are kept in a dict keyed by id, so of the findings that
\* drew the same id only the last one stays
AssignIds_keyed_by_id(findings, ids) ==
    LET n == Len(findings)
        keep == { i \in 1..n : \A j \in (i + 1)..n : ids[j] # ids[i] }
        nth(k) == CHOOSE i \in keep : Cardinality({ j \in keep : j <= i }) = k
    IN  [k \in 1..Cardinality(keep) |-> [findings[nth(k)] EXCEPT !.id = ids[nth(k)]]]

\* "id": str(uuid.uuid4())[:8] for the findings in the order they are appended
AssignIds(findings, ids) ==
    [i \in 1..Len(findings) |-> [findings[i] EXCEPT !.id = ids[i]]]

\* sum(l['amount'] for l in leakages)
RECURSIVE sum_amounts(_)
sum_amounts(items) ==
    IF items = << >> THEN Float(0)
    ELSE FloatAdd(sum_amounts(SubSeq(items, 1, Len(items) - 1)), items[Len(items)].amount)

\* one step of the stable descending sort: x goes behind every item that is not smaller
insert_desc(sorted, x) ==
    LET ahead == Cardinality({ i \in 1..Len(sorted) : sorted[i].amount.c >= x.amount.c })
    IN  SubSeq(sorted, 1, ahead) \o << x >> \o SubSeq(sorted, ahead + 1, Len(sorted))

\* all_leakages.sort(key=lambda x: x['amount'], reverse=True)
RECURSIVE sort_by_amount(_)
sort_by_amount(items) ==
    IF items = << >> THEN << >>
    ELSE insert_desc(sort_by_amount(SubSeq(items, 1, Len(items) - 1)), items[Len(items)])

\* no call yet, and a call that left by an exception
None == [status |-> "none"]
Raised == [status |-> "raised"]

\* analyze_complete with the ids drawn for its findings: no analyzer call is guarded,
\* so the TypeError of df.duplicated() leaves analyze_complete
analyze_complete(d, ids) ==
    LET cols == detect_columns(d)
        all_leakages == AssignIds(enhanced_findings(d, cols), ids)
    IN  IF duplicated_raises(d) THEN Raised
        ELSE [status |-> "ok",
              total_leakages |-> Len(all_leakages),
              total_amount |-> sum_amounts(all_leakages),
              items |-> sort_by_amount(all_leakages),
              columns_analyzed |->
                  [total_columns |-> Len(d.columns),
                   revenue_columns |-> cols["revenue"],
                   cost_columns |-> cols["cost"],
                   discount_columns |-> cols["discount"],
                   quantity_columns |-> cols["quantity"],
                   customer_columns |-> cols["customer"],
                   product_columns |-> cols["product"]]]

----------------------------------------------------------------------------
(* _analyze_data_for_leakages and upload_file *)

\* any_keyword_in on every name of the pool, evaluated once
upload_matches ==
    [col \in ColumnPool |->
        [revenue  |-> any_keyword_in(col, upload_revenue_keywords),
         cost     |-> any_keyword_in(col, upload_cost_keywords),
         quantity |-> any_keyword_in(col, upload_quantity_keywords),
         discount |-> any_keyword_in(col, upload_discount_keywords)]]

\* the four column lists; a cost column is one that is no revenue column
upload_columns(d) ==
    LET revenue_cols == SelectSeq(d.columns, LAMBDA col : upload_matches[col].revenue)
    IN  [revenue  |-> revenue_cols,
         cost     |-> SelectSeq(d.columns, LAMBDA col :
                          /\ upload_matches[col].cost
                          /\ ~ \E i \in 1..Len(revenue_cols) : revenue_cols[i] = col),
         quantity |-> SelectSeq(d.columns, LAMBDA col : upload_matches[col].quantity),
         discount |-> SelectSeq(d.columns, LAMBDA col : upload_matches[col].discount)]

\* 1. negative and zero values of one revenue column
upload_revenue_of(d, col) ==
    LET s == Column(d, col)
        negative_count == CountWhere(s, { v \in Range(Values(s)) : v < 0 })
        negative_sum == Abs(SumSeq(SelectSeq(Values(s), LAMBDA v : v < 0)))
        zero_count == CountWhere(s, { v \in Range(Values(s)) : v = 0 })
    IN  IF ~is_numeric_dtype(d, col) THEN << >>
        ELSE (IF negative_count > 0
              THEN << Finding("Negative Revenue", col, Float(100 * negative_sum),
                              "high", "Revenue Loss", negative_count) >>
              ELSE << >>)
             \o
             (IF zero_count > 0
              THEN << Finding("Zero Revenue Transactions", col, Float(0),
                              "medium", "Pricing Issue", zero_count) >>
              ELSE << >>)

\* df[col] > avg_cost + 3 * std_cost for a value v of a column of n values:
\* std_cost is the sample deviation, NaN (every comparison False) when n < 2
cost_outlier(v, n, total, sumsq) ==
    /\ n >= 2
    /\ v * n - total > 0
    /\ (n - 1) * (v * n - total) * (v * n - total) > 9 * n * (n * sumsq - total * total)

\* 2. outliers of one cost column
upload_cost_of(d, col) ==
    LET s == Column(d, col)
        is_outlier(v) == cost_outlier(v, Len(Values(s)), series_sum(s), series_sumsq(s))
        outliers == SelectSeq(Values(s), is_outlier)
    IN  IF is_numeric_dtype(d, col) /\ Len(outliers) > 0
        THEN << Finding("Excessive Costs", col, Float(100 * SumSeq(outliers)),
                        "high", "Cost Overrun", Len(outliers)) >>
        ELSE << >>

\* 3. one discount column against the first revenue column, whatever its dtype:
\* the sum of a text column is a str, its comparison with 0 raises inside the try
upload_discount_of(d, col, revenue_cols) ==
    LET s == Column(d, col)
        total_discount == series_sum(s)
        first_rev_col == revenue_cols[1]
        rev == Column(d, first_rev_col)
        raises == /\ ~is_numeric_dtype(d, first_rev_col)
                  /\ \E r \in 1..NRows(d) : rev[r].kind # "null"
        total_revenue == series_sum(rev)
    IN  IF /\ is_numeric_dtype(d, col)
           /\ total_discount > 0
           /\ revenue_cols # << >>
           /\ first_rev_col # ""
           /\ ~raises
           /\ total_revenue > 0
           /\ 100 * total_discount > 10 * total_revenue
        THEN << Finding("Excessive Discounting", col, Float(100 * total_discount),
                        "medium", "Pricing Strategy", CountWhere(s, { v \in Range(Values(s)) : v > 0 })) >>
        ELSE << >>

\* 4. the nulls of one column, any column
upload_missing_of(d, col, cols) ==
    LET s == Column(d, col)
        null_count == null_count_of(s)
        in_revenue == \E i \in 1..Len(cols.revenue) : cols.revenue[i] = col
        in_cost == \E i \in 1..Len(cols.cost) : cols.cost[i] = col
    IN  IF null_count > 0
        THEN << Finding("Missing Data", col,
                        IF in_revenue /\ is_numeric_dtype(d, col)
                        THEN mean_times(s, null_count) ELSE Float(0),
                        IF in_revenue THEN "high" ELSE IF in_cost THEN "medium" ELSE "low",
                        "Data Quality", null_count) >>
        ELSE << >>

\* 5. duplicate rows, valued on the first revenue column when it is numeric
upload_duplicates(d, revenue_cols) ==
    LET duplicate_count == Cardinality(duplicated(d))
        duplicate_amount ==
            IF /\ revenue_cols # << >>
               /\ revenue_cols[1] # ""
               /\ is_numeric_dtype(d, revenue_cols[1])
            THEN 50 * masked_sum(d, duplicated_keep_false(d), revenue_cols[1])
            ELSE 0
    IN  IF duplicate_count > 0
        THEN << Finding("Duplicate Transactions", "All Columns", Float(duplicate_amount),
                        "high", "Data Quality", duplicate_count) >>
        ELSE << >>

\* 6. negative and zero values of one quantity column
upload_quantity_of(d, col) ==
    LET s == Column(d, col)
        negative_qty == CountWhere(s, { v \in Range(Values(s)) : v < 0 })
        zero_qty == CountWhere(s, { v \in Range(Values(s)) : v = 0 })
    IN  IF ~is_numeric_dtype(d, col) THEN << >>
        ELSE (IF negative_qty > 0
              THEN << Finding("Negative Quantities", col, Float(0),
                              "medium", "Inventory Issue", negative_qty) >>
              ELSE << >>)
             \o
             (IF zero_qty > 0
              THEN << Finding("Zero Quantities", col, Float(0),
                              "low", "Data Quality", zero_qty) >>
              ELSE << >>)

\* the findings in the order _analyze_data_for_leakages appends them
upload_findings(d, cols) ==
    Flatten([i \in 1..Len(cols.revenue) |-> upload_revenue_of(d, cols.revenue[i])])
    \o Flatten([i \in 1..Len(cols.cost) |-> upload_cost_of(d, cols.cost[i])])
    \o Flatten([i \in 1..Len(cols.discount) |->
                   upload_discount_of(d, cols.discount[i], cols.revenue)])
    \o Flatten([i \in 1..Len(d.columns) |-> upload_missing_of(d, d.columns[i], cols)])
    \o upload_duplicates(d, cols.revenue)
    \o Flatten([i \in 1..Len(cols.quantity) |-> upload_quantity_of(d, cols.quantity[i])])

\* _analyze_data_for_leakages(df, mapping) with the ids drawn for its findings
analyze_data_for_leakages(d, ids) ==
    LET cols == upload_columns(d)
        leakages == AssignIds(upload_findings(d, cols), ids)
    IN  IF duplicated_raises(d) THEN Raised
        ELSE [status |-> "ok",
              total_leakages |-> Len(leakages),
              total_amount |-> sum_amounts(leakages),
              items |-> leakages,
              columns_analyzed |->
                  [total_columns |-> Len(d.columns),
                   revenue_columns |-> cols.revenue,
                   cost_columns |-> cols.cost,
                   discount_columns |-> cols.discount,
                   quantity_columns |-> cols.quantity]]

\* upload_file from the analysis on: any exception is answered 400 and the upload
\* recorded as failed; top_issues are the first five items
upload_file(d, ids) ==
    LET leakage_data == analyze_data_for_leakages(d, ids)
    IN  IF leakage_data.status = "raised" THEN [status |-> "failed"]
        ELSE [status |-> "completed",
              leakage_data |-> leakage_data,
              leakage_summary |->
                  [total_leakages |-> leakage_data.total_leakages,
                   total_amount |-> leakage_data.total_amount,
                   critical |-> Len(SelectSeq(leakage_data.items,
                                              LAMBDA l : l.severity = "high")),
                   warnings |-> Len(SelectSeq(leakage_data.items,
                                              LAMBDA l : l.severity \in {"medium", "low"})),
                   top_issues |-> SubSeq(leakage_data.items, 1,
                                         IF Len(leakage_data.items) < 5
                                         THEN Len(leakage_data.items) ELSE 5)]]

----------------------------------------------------------------------------
(* The alert service. A Python value is a cell: Num(v) a number counted in  *)
(* thousandths, NaNValue the float nan, Str(k) a str, PyNone, or Absent    *)
(* for the key a dict does not hold.                                       *)

\* thousandths in one unit and in one cent
Milli == 1000
MilliPerCent == 10

\* the tolerance 0.01 of equals and not_equals
Tolerance == 10

NaNValue == [kind |-> "nan", val |-> 0]
PyNone == [kind |-> "none", val |-> 0]
Absent == [kind |-> "absent", val |-> 0]

IsNumber(v) == v.kind \in {"num", "nan"}

\* check_condition on two floats: every comparison with nan is False
check_condition(current_value, condition, threshold) ==
    LET numbers == current_value.kind = "num" /\ threshold.kind = "num"
        distance == Abs(current_value.val - threshold.val)
    IN  IF condition = "greater_than" THEN numbers /\ current_value.val > threshold.val
        ELSE IF condition = "less_than" THEN numbers /\ current_value.val < threshold.val
        ELSE IF condition = "equals" THEN numbers /\ distance < Tolerance
        ELSE IF condition = "not_equals" THEN numbers /\ distance >= Tolerance
        ELSE FALSE

\* the comparison or the subtraction is a TypeError when an operand is no number
check_condition_raises(current_value, condition, threshold) ==
    /\ condition \in {"greater_than", "less_than", "equals", "not_equals"}
    /\ ~IsNumber(current_value) \/ ~IsNumber(threshold)

\* one element of leakage_data: a dict, or a str
LeakDict(type, amount, affected_rows) ==
    [kind |-> "dict", type |-> type, amount |-> amount, affected_rows |-> affected_rows]
LeakStr(text) ==
    [kind |-> "str", type |-> text, amount |-> Absent, affected_rows |-> Absent]

\* a finding of the analyzer as an element of leakage_data["items"]
LeakOf(f) ==
    LeakDict(f.type,
             IF f.amount.nan THEN NaNValue ELSE Num(MilliPerCent * f.amount.c),
             Num(Milli * f.affected_rows))

\* leakage_data: a list, None, a JSON text, or the dict that
\* _analyze_data_for_leakages returns, which a for loop walks key by key
LeakList(items) == [kind |-> "list", items |-> items]
LeakNone == [kind |-> "none", items |-> << >>]
LeakEmptyText == [kind |-> "text", items |-> << >>]
LeakBadText == [kind |-> "badtext", items |-> << >>]
LeakRecord ==
    [kind |-> "dict",
     items |-> << LeakStr("total_leakages"), LeakStr("total_amount"),
                  LeakStr("items"), LeakStr("columns_analyzed") >>]

\* a + b of two numbers
ValueAdd(a, b) == IF a.kind = "nan" \/ b.kind = "nan" THEN NaNValue ELSE Num(a.val + b.val)

\* the outcome of a loop: the value it came to, or raised
Came(v) == [raised |-> FALSE, value |-> v]
Threw == [raised |-> TRUE, value |-> Num(0)]

\* total_leakage += abs(leakage['amount']) for the elements with 'amount' in them:
\* on a str, "in" looks for the substring and the subscript is a TypeError
RECURSIVE sum_abs_amounts(_)
sum_abs_amounts(items) ==
    IF items = << >> THEN Came(Num(0))
    ELSE LET before == sum_abs_amounts(SubSeq(items, 1, Len(items) - 1))
             leakage == items[Len(items)]
         IN  IF before.raised THEN Threw
             ELSE IF leakage.kind = "str"
             THEN (IF str_in("amount", leakage.type) THEN Threw ELSE before)
             ELSE IF leakage.amount.kind = "absent" THEN before
             ELSE IF ~IsNumber(leakage.amount) THEN Threw
             ELSE Came(ValueAdd(before.value,
                                IF leakage.amount.kind = "nan" THEN NaNValue
                                ELSE Num(Abs(leakage.amount.val))))

\* count += leakage.get('affected_rows', 0) for the elements of one type:
\* a str has no get
RECURSIVE count_affected_rows(_, _)
count_affected_rows(items, type) ==
    IF items = << >> THEN Came(Num(0))
    ELSE LET before == count_affected_rows(SubSeq(items, 1, Len(items) - 1), type)
             leakage == items[Len(items)]
         IN  IF before.raised \/ leakage.kind = "str" THEN Threw
             ELSE IF leakage.type # type THEN before
             ELSE IF leakage.affected_rows.kind = "absent" THEN before
             ELSE IF ~IsNumber(leakage.affected_rows) THEN Threw
             ELSE Came(ValueAdd(before.value, leakage.affected_rows))

\* the type each count metric looks for
count_metric_type ==
    [negative_revenue |-> "Negative Revenue Values",
     zero_revenue |-> "Zero Revenue Transactions",
     duplicate_transactions |-> "Duplicate Transactions",
     excessive_costs |-> "Excessive Costs"]

\* the key of financial_summary each financial metric returns
financial_metric_key ==
    [revenue_total |-> "total_revenue", profit_margin |-> "profit_margin",
     total_costs |-> "total_costs", net_profit |-> "net_profit"]

\* data_summary: None, or a dict with financial_summary (Absent, PyNone or a dict
\* from key to value) and column_details (the null_count of each column)
SummaryNone == [kind |-> "none"]
SummaryDict(financial_summary, null_counts) ==
    [kind |-> "dict", financial_summary |-> financial_summary,
     null_counts |-> null_counts]
FinancialSummary(key, v) == [kind |-> "dict", key |-> key, val |-> v]

\* data_summary of an upload of d: column_details holds the null_count of every
\* column, and there is no financial_summary
data_summary_of(d) ==
    SummaryDict(Absent,
                [i \in 1..Len(d.columns) |-> null_count_of(Column(d, d.columns[i]))])

\* financial_summary.get(key, default)
financial_get(financial_summary, key, default) ==
    IF financial_summary.kind = "dict" /\ financial_summary.key = key
    THEN financial_summary.val ELSE default

\* x / y * 100 of two numbers in thousandths, rounded down to a thousandth
\* (the quotient and the remainder apart, to stay within 32 bits)
Percent(x, y) == ((x * 100) \div y) * Milli + (((x * 100) % y) * Milli) \div y

\* the body of the try block of calculate_metric_value
metric_value(metric, upload_data, leakage_data, data_summary) ==
    LET items == leakage_data.items
        financial_summary == data_summary.financial_summary
        iterable == leakage_data.kind \in {"list", "dict", "text"}
        total_rows == IF upload_data.total_rows = 0 THEN 1 ELSE upload_data.total_rows
    IN  IF leakage_data.kind = "badtext" \/ data_summary.kind = "none" THEN Threw
        ELSE IF metric \in DOMAIN financial_metric_key
        THEN (IF financial_summary.kind = "none" THEN Threw
              ELSE Came(financial_get(financial_summary, financial_metric_key[metric],
                                      Num(0))))
        ELSE IF metric = "high_leakage"
        THEN (IF ~iterable THEN Threw ELSE sum_abs_amounts(items))
        ELSE IF metric = "leakage_percentage"
        THEN (IF financial_summary.kind = "none" \/ ~iterable THEN Threw
              ELSE LET total_revenue ==
                           financial_get(financial_summary, "total_revenue", Num(Milli))
                       total_leakage == sum_abs_amounts(items)
                   IN  IF total_leakage.raised \/ ~IsNumber(total_revenue) THEN Threw
                       ELSE IF total_revenue.kind = "nan" \/ total_revenue.val <= 0
                       THEN Came(Num(0))
                       ELSE IF total_leakage.value.kind = "nan" THEN Came(NaNValue)
                       ELSE Came(Num(Percent(total_leakage.value.val, total_revenue.val))))
        ELSE IF metric \in DOMAIN count_metric_type
        THEN (IF ~iterable THEN Threw
              ELSE count_affected_rows(items, count_metric_type[metric]))
        ELSE IF metric = "missing_data"
        THEN LET num_columns == Len(data_summary.null_counts)
                 total_nulls == SumSeq(data_summary.null_counts)
                 total_cells == IF num_columns > 0 THEN total_rows * num_columns ELSE 1
             IN  IF total_cells > 0
                 THEN Came(Num(Percent(Milli * total_nulls, Milli * total_cells)))
                 ELSE Came(Num(0))
        ELSE IF metric = "data_quality_score"
        THEN (IF leakage_data.kind = "none" THEN Threw
              ELSE LET total_issues == Len(items)
                       error_percentage ==
                           IF total_rows > 0
                           THEN Percent(Milli * total_issues, Milli * total_rows) ELSE 0
                   IN  Came(Num(IF 100 * Milli - error_percentage > 0
                                THEN 100 * Milli - error_percentage ELSE 0)))
        ELSE Came(Num(0))

\* calculate_metric_value: any exception of the body is answered 0
calculate_metric_value(metric, upload_data, leakage_data, data_summary) ==
    LET body == metric_value(metric, upload_data, leakage_data, data_summary)
    IN  IF body.raised THEN Num(0) ELSE body.value

\* format_metric_value raises when the value has no float format, and int(nan) is
\* a ValueError
currency_metrics == {"revenue_total", "high_leakage", "total_costs", "net_profit"}
percentage_metrics ==
    {"leakage_percentage", "missing_data", "data_quality_score", "profit_margin"}
format_metric_value_raises(metric, value) ==
    \/ ~IsNumber(value)
    \/ metric \notin currency_metrics \cup percentage_metrics /\ value.kind = "nan"

----------------------------------------------------------------------------
(* Alerts: the alerts table, the alert routes and evaluate_alerts_on_upload *)

\* the columns of the Notification model, and the keywords
\* evaluate_alerts_on_upload constructs one with
Notification_columns ==
    {"id", "notification_id", "user_id", "title", "message", "severity", "is_read",
     "created_at"}
notification_keywords ==
    {"user_id", "title", "message", "severity", "related_type", "related_id",
     "is_read", "created_at"}

\* the declarative constructor raises TypeError on a keyword that is no attribute
Notification_raises == ~(notification_keywords \subseteq Notification_columns)

\* the record an upload stores: leakage_data is the dict of the analysis
UploadedData(d) ==
    [total_rows |-> NRows(d), leakage_data |-> LeakRecord,
     data_summary |-> data_summary_of(d)]

\* the metric value of one alert on an upload
current_value_of(alert, upload_data) ==
    calculate_metric_value(alert.metric, upload_data, upload_data.leakage_data,
                           upload_data.data_summary)

\* does check_condition hold for the alert (False when it raises)
condition_met(alert, upload_data) ==
    LET current_value == current_value_of(alert, upload_data)
    IN  /\ ~check_condition_raises(current_value, alert.condition, alert.threshold)
        /\ check_condition(current_value, alert.condition, alert.threshold)

\* does the body of the loop raise for the alert: in check_condition, in
\* format_metric_value, or in Notification(...) when notify_in_app is set
evaluation_raises(alert, upload_data) ==
    LET current_value == current_value_of(alert, upload_data)
    IN  \/ check_condition_raises(current_value, alert.condition, alert.threshold)
        \/ /\ check_condition(current_value, alert.condition, alert.threshold)
           /\ \/ format_metric_value_raises(alert.metric, current_value)
              \/ format_metric_value_raises(alert.metric, alert.threshold)
              \/ alert.notify_in_app /\ Notification_raises

\* the dict appended to triggered_alerts
TriggeredAlert(alert, upload_data) ==
    [alert_id |-> alert.alert_id, metric |-> alert.metric,
     current_value |-> current_value_of(alert, upload_data),
     threshold |-> alert.threshold, condition |-> alert.condition,
     severity |-> alert.severity, notify_email |-> alert.notify_email]

\* the Notification added to the session for a triggered alert
NotificationOf(alert, user_id) ==
    [user_id |-> user_id, severity |-> alert.severity, related_id |-> alert.alert_id]

\* the mutant: the first exception in the loop leaves it (break instead of continue)
RECURSIVE evaluate_each_until_raise(_, _, _)
evaluate_each_until_raise(active_alerts, user_id, upload_data) ==
    IF active_alerts = << >> THEN [events |-> << >>, added |-> << >>]
    ELSE LET alert == active_alerts[1]
             rest == evaluate_each_until_raise(Tail(active_alerts), user_id, upload_data)
         IN  IF evaluation_raises(alert, upload_data)
             THEN [events |-> << >>, added |-> << >>]
             ELSE IF ~condition_met(alert, upload_data) THEN rest
             ELSE [events |-> << TriggeredAlert(alert, upload_data) >> \o rest.events,
                   added |-> (IF alert.notify_in_app
                              THEN << NotificationOf(alert, user_id) >> ELSE << >>)
                             \o rest.added]

\* the loop over the active alerts: an exception skips the alert it came from
RECURSIVE evaluate_each(_, _, _)
evaluate_each(active_alerts, user_id, upload_data) ==
    IF active_alerts = << >> THEN [events |-> << >>, added |-> << >>]
    ELSE LET alert == active_alerts[1]
             rest == evaluate_each(Tail(active_alerts), user_id, upload_data)
         IN  IF evaluation_raises(alert, upload_data) \/ ~condition_met(alert, upload_data)
             THEN rest
             ELSE [events |-> << TriggeredAlert(alert, upload_data) >> \o rest.events,
                   added |-> (IF alert.notify_in_app
                              THEN << NotificationOf(alert, user_id) >> ELSE << >>)
                             \o rest.added]

\* what the database session does in a call: "query" and "commit" name the call
\* that raises
DbFaults == {"none", "query", "commit"}

\* evaluate_alerts_on_upload(db, user_id, upload_data): the events returned, the
\* notifications committed, and whether the session was rolled back
evaluate_alerts_on_upload(table, user_id, upload_data, fault) ==
    LET active_alerts ==
            SelectSeq(table, LAMBDA alert : alert.user_id = user_id /\ alert.is_active)
        loop == evaluate_each(active_alerts, user_id, upload_data)
        Returned(events, notifications, committed, rolled_back) ==
            [status |-> "ok", user_id |-> user_id, events |-> events,
             notifications |-> notifications, committed |-> committed,
             rolled_back |-> rolled_back]
    IN  IF fault = "query" THEN Returned(<< >>, << >>, FALSE, TRUE)
        ELSE IF active_alerts = << >> \/ loop.events = << >>
        THEN Returned(<< >>, << >>, FALSE, FALSE)
        ELSE IF fault = "commit" THEN Returned(<< >>, << >>, FALSE, TRUE)
        ELSE Returned(loop.events, loop.added, TRUE, FALSE)

\* the rows db.query(Alert).filter(alert_id, user_id) finds
FoundAlerts(table, alert_id, user_id) ==
    { i \in 1..Len(table) : table[i].alert_id = alert_id /\ table[i].user_id = user_id }

\* .first()
FirstFound(table, alert_id, user_id) ==
    CHOOSE i \in FoundAlerts(table, alert_id, user_id) :
        \A j \in FoundAlerts(table, alert_id, user_id) : i <= j

Answer(table, status_code, body) ==
    [alerts |-> table, response |-> [status_code |-> status_code, body |-> body]]

\* alert_id = f"ALERT-{str(uuid.uuid4())[:8]}": a name no row of the table has
fresh_alert_id(table) ==
    CHOOSE id \in 1..(Len(table) + 1) :
        /\ \A i \in 1..Len(table) : table[i].alert_id # id
        /\ \A other \in 1..(id - 1) : \E i \in 1..Len(table) : table[i].alert_id = other

\* POST /
create_alert(table, alert_data, current_user) ==
    Answer(Append(table,
                  [alert_id |-> fresh_alert_id(table), user_id |-> current_user,
                   metric |-> alert_data.metric, condition |-> alert_data.condition,
                   threshold |-> alert_data.threshold, severity |-> alert_data.severity,
                   notify_email |-> alert_data.notify_email,
                   notify_in_app |-> alert_data.notify_in_app,
                   is_active |-> TRUE]),
           201, PyNone)

\* PUT /{alert_id}: threshold, severity and is_active are set when they are given
update_alert(table, alert_id, alert_data, current_user) ==
    IF FoundAlerts(table, alert_id, current_user) = {}
    THEN Answer(table, 404, PyNone)
    ELSE LET i == FirstFound(table, alert_id, current_user)
             alert == table[i]
         IN  Answer([table EXCEPT ![i] =
                        [alert EXCEPT
                            !.threshold = IF alert_data.threshold = PyNone
                                          THEN alert.threshold
                                          ELSE alert_data.threshold,
                            !.severity = IF alert_data.severity = ""
                                         THEN alert.severity ELSE alert_data.severity,
                            !.is_active = IF alert_data.is_active = PyNone
                                          THEN alert.is_active
                                          ELSE alert_data.is_active.val = 1]],
                    200, PyNone)

\* DELETE /{alert_id}
delete_alert(table, alert_id, current_user) ==
    IF FoundAlerts(table, alert_id, current_user) = {}
    THEN Answer(table, 404, PyNone)
    ELSE LET i == FirstFound(table, alert_id, current_user)
         IN  Answer(SubSeq(table, 1, i - 1) \o SubSeq(table, i + 1, Len(table)),
                    204, PyNone)

\* the mutant: the alert is looked up by alert_id alone
toggle_alert_status_of_anyone(table, alert_id, current_user) ==
    IF \A i \in 1..Len(table) : table[i].alert_id # alert_id
    THEN Answer(table, 404, PyNone)
    ELSE LET i == CHOOSE j \in 1..Len(table) : table[j].alert_id = alert_id
         IN  Answer([table EXCEPT ![i].is_active = ~table[i].is_active],
                    200, Num(IF table[i].is_active THEN 0 ELSE 1))

\* PATCH /{alert_id}/status: the body returns the new isActive
toggle_alert_status(table, alert_id, current_user) ==
    IF FoundAlerts(table, alert_id, current_user) = {}
    THEN Answer(table, 404, PyNone)
    ELSE LET i == FirstFound(table, alert_id, current_user)
         IN  Answer([table EXCEPT ![i].is_active = ~table[i].is_active],
                    200, Num(IF table[i].is_active THEN 0 ELSE 1))

----------------------------------------------------------------------------
(* The chatbot: ConversationManager and chat_with_ai. The content of a      *)
(* message is a number: k for the k-th message of a user, -k for the answer *)
(* the chatbot gives to it. conversations maps a user to the list stored    *)
(* for them, the empty one for a user the dict has no key of.              *)

\* the messages add_message keeps
MaxHistory == 20

Message(role, content) == [role |-> role, content |-> content]

\* the mutant: the list is cut to its first messages ([:20])
keep_last_cut_at_the_end(history) ==
    IF Len(history) > MaxHistory THEN SubSeq(history, 1, MaxHistory) ELSE history

\* self.conversations[user_id][-20:] when the list is longer than 20
keep_last(history) ==
    IF Len(history) > MaxHistory
    THEN SubSeq(history, Len(history) - MaxHistory + 1, Len(history))
    ELSE history

\* ConversationManager.add_message
add_message(conv, user_id, role, content) ==
    [conv EXCEPT ![user_id] = keep_last(Append(conv[user_id], Message(role, content)))]

\* ConversationManager.clear_history
clear_history(conv, user_id) == [conv EXCEPT ![user_id] = << >>]

\* the answer the chatbot gives to a message
AnswerTo(message) == -message

\* the mutant: the answer is stored before the message
save_exchange_answer_first(conv, user_id, message, answer) ==
    add_message(add_message(conv, user_id, "assistant", answer),
                user_id, "user", message)

\* the end of chat_with_ai: the message and the answer are added one after the
\* other, with no await between the two calls
save_exchange(conv, user_id, message, answer) ==
    add_message(add_message(conv, user_id, "user", message),
                user_id, "assistant", answer)

----------------------------------------------------------------------------
(* The users table and the routes that write it: api/routes/user_routes.py
   (mounted at /api/admin), api/routes/auth_routes.py and
   api/routes/settings_routes.py.  A row keeps the columns the routes decide
   on: id, email, role and is_active.  current_user is the row the
   get_current_user dependency hands to the handler. *)

\* role = Column(String): NULL when no role was given
NoRole == "<None>"

\* if role: (None and the empty string are falsy)
truthy(role) == role # NoRole /\ role # ""

FoundUsers(table, user_id) == { user \in table : user.id = user_id }

\* db.query(User).filter(User.id == user_id).first()
FirstUser(table, user_id) == CHOOSE user \in FoundUsers(table, user_id) : TRUE

UserAnswer(table, status_code) == [users |-> table, status_code |-> status_code]

\* the id the database gives to an added row: one more than the largest id
fresh_user_id(table) ==
    IF table = {} THEN 1
    ELSE (CHOOSE user \in table : \A other \in table : other.id <= user.id).id + 1

\* verify_admin(current_user) raises HTTPException(403)
verify_admin_raises(current_user) == current_user.role # "admin"

\* GET /users
get_all_users(table, current_user) ==
    IF verify_admin_raises(current_user) THEN UserAnswer(table, 403)
    ELSE UserAnswer(table, 200)

\* GET /users/{user_id}, and /users/{user_id}/analyses and /uploads the same way
get_user_details(table, user_id, current_user) ==
    IF verify_admin_raises(current_user) THEN UserAnswer(table, 403)
    ELSE IF FoundUsers(table, user_id) = {} THEN UserAnswer(table, 404)
    ELSE UserAnswer(table, 200)

\* PUT /users/{user_id}/role
update_user_role(table, user_id, role, current_user) ==
    IF verify_admin_raises(current_user) THEN UserAnswer(table, 403)
    ELSE IF role \notin {"admin", "user"} THEN UserAnswer(table, 400)
    ELSE IF FoundUsers(table, user_id) = {} THEN UserAnswer(table, 404)
    ELSE IF FirstUser(table, user_id).id = current_user.id /\ role # "admin"
         THEN UserAnswer(table, 400)
    ELSE UserAnswer({ IF user = FirstUser(table, user_id)
                      THEN [user EXCEPT !.role = role] ELSE user : user \in table },
                    200)

\* PUT /users/{user_id}/toggle-active
toggle_user_active(table, user_id, current_user) ==
    IF verify_admin_raises(current_user) THEN UserAnswer(table, 403)
    ELSE IF FoundUsers(table, user_id) = {} THEN UserAnswer(table, 404)
    ELSE IF FirstUser(table, user_id).id = current_user.id THEN UserAnswer(table, 400)
    ELSE UserAnswer({ IF user = FirstUser(table, user_id)
                      THEN [user EXCEPT !.is_active = ~user.is_active] ELSE user :
                      user \in table },
                    200)

\* DELETE /users/{user_id}
delete_user(table, user_id, current_user) ==
    IF verify_admin_raises(current_user) THEN UserAnswer(table, 403)
    ELSE IF FoundUsers(table, user_id) = {} THEN UserAnswer(table, 404)
    ELSE IF FirstUser(table, user_id).id = current_user.id THEN UserAnswer(table, 400)
    ELSE UserAnswer(table \ {FirstUser(table, user_id)}, 200)

\* POST /signup
signup(table, email, role) ==
    IF \E existing_user \in table : existing_user.email = email
    THEN UserAnswer(table, 400)
    ELSE UserAnswer(table \cup {[id |-> fresh_user_id(table), email |-> email,
                                 role |-> role, is_active |-> TRUE]},
                    201)

\* PUT /me (auth_routes.update_profile): if role: current_user.role = role
auth_update_profile(table, role, current_user) ==
    UserAnswer({ IF user = current_user /\ truthy(role)
                 THEN [user EXCEPT !.role = role] ELSE user : user \in table },
               200)

\* PUT /profile (settings_routes.update_profile):
\* if update_data.role is not None: current_user.role = update_data.role
settings_update_profile(table, role, current_user) ==
    UserAnswer({ IF user = current_user /\ role # NoRole
                 THEN [user EXCEPT !.role = role] ELSE user : user \in table },
               200)

----------------------------------------------------------------------------
(* The state machine: a caller loads one dataset and calls the engine on it *)

\* users and alerts
MaxUsers == 2
MaxAlerts == 2

UserIds == 1..MaxUsers
AlertIds == 1..MaxAlerts

\* the outcomes of the uuid draws of a call that appends n findings
IdDraws(n) == [1..n -> 1..IdSpace]

\* the mutant: duplicate detection drops the duplicated rows in place
\* (df.drop_duplicates(inplace=True))
dataset_after_call_deduplicated(d) ==
    [d EXCEPT !.data = SelectSeq(d.data,
                          LAMBDA row : \A r \in duplicated(d) : d.data[r] # row)]

\* the DataFrame after a call of the engine: the analyzers only read it (df[col],
\* df[mask], df.groupby, df.duplicated and df.columns.tolist() build new objects);
\* nothing is assigned into df and no method is called with inplace=True
dataset_after_call(d) == d

\* no chat yet
ChatIdle ==
    /\ conversations = [u \in UserIds |-> << >>]
    /\ added = [u \in UserIds |-> 0]
    /\ sent = [u \in UserIds |-> 0]
    /\ handlers = {}

\* nobody has signed up and no request was sent
UsersIdle == users = {} /\ granted = {} /\ reply = None

\* no call of the alert service on its own
ServiceIdle == call = None /\ result = None

\* no dataset is loaded: the engine is not called
EngineIdle ==
    /\ df = [columns |-> << >>, dtypes |-> << >>, data |-> << >>]
    /\ pc = "idle"
    /\ columns = None
    /\ report = None
    /\ previous = None
    /\ upload = None
    /\ alerts = << >>
    /\ triggered = None

InitWith(frames) ==
    /\ df \in frames
    /\ pc = "loaded"
    /\ columns = None
    /\ report = None
    /\ previous = None
    /\ upload = None
    /\ ServiceIdle
    /\ alerts = << >>
    /\ triggered = None
    /\ ChatIdle
    /\ UsersIdle

Init == InitWith(GeneralDataFrames)

InitCustomers == InitWith(CustomerDataFrames)

InitEmpty == InitWith(EmptyDataFrames)

InitLong == InitWith(LongDataFrames)

DetectColumns ==
    /\ pc = "loaded"
    /\ columns' = detect_columns(df)
    /\ pc' = "classified"
    /\ df' = dataset_after_call(df)
    /\ UNCHANGED << report, previous, upload, service_vars, user_vars, alert_vars, chat_vars >>

\* analyze_complete(df), a first and a second time on the same DataFrame
AnalyzeComplete ==
    /\ pc \in {"loaded", "analyzed"}
    /\ \E ids \in IdDraws(Len(enhanced_findings(df, detect_columns(df)))) :
          report' = analyze_complete(df, ids)
    /\ previous' = report
    /\ pc' = IF pc = "loaded" THEN "analyzed" ELSE "reanalyzed"
    /\ df' = dataset_after_call(df)
    /\ UNCHANGED << columns, upload, service_vars, user_vars, alert_vars, chat_vars >>

\* POST /upload for the parsed file, by one of the users: a completed upload
\* evaluates the alerts of the user on the record it stored
UploadFile ==
    /\ pc = "loaded"
    /\ \E ids \in IdDraws(Len(upload_findings(df, upload_columns(df)))) :
          upload' = upload_file(df, ids)
    /\ \E current_user \in UserIds, fault \in DbFaults :
          triggered' = IF duplicated_raises(df) THEN None
                       ELSE evaluate_alerts_on_upload(alerts, current_user,
                                                      UploadedData(df), fault)
    /\ pc' = "uploaded"
    /\ df' = dataset_after_call(df)
    /\ UNCHANGED << columns, report, previous, service_vars, user_vars, alerts, chat_vars >>

Next == DetectColumns \/ AnalyzeComplete \/ UploadFile

Spec == Init /\ [][Next]_vars

SpecCustomers == InitCustomers /\ [][Next]_vars

SpecEmpty == InitEmpty /\ [][Next]_vars

SpecLong == InitLong /\ [][Next]_vars

----------------------------------------------------------------------------
(* The alert routes and an upload that evaluates the alerts *)

\* bodies of POST /: AlertCreate
AlertCreates ==
    { [metric |-> "zero_revenue", condition |-> "equals", threshold |-> Num(0),
       severity |-> "high", notify_email |-> ~in_app, notify_in_app |-> in_app] :
          in_app \in BOOLEAN }

\* bodies of PUT /{alert_id}: AlertUpdate, a field that is not given is None
\* (the empty str for severity); True and False are the numbers 1 and 0
AlertUpdates ==
    { [threshold |-> PyNone, severity |-> "", is_active |-> Num(0)],
      [threshold |-> Num(Milli), severity |-> "critical", is_active |-> PyNone] }

\* the dataset uploaded: one payment, in which the analysis finds nothing
AlertDataFrames ==
    { d \in GeneralDataFrames :
        /\ d.columns = << "Payment" >>
        /\ NRows(d) = 1
        /\ upload_findings(d, upload_columns(d)) = << >> }

InitAlerts ==
    /\ InitWith(AlertDataFrames)

CreateAlertBy(current_user, alert_data) ==
    /\ pc = "loaded"
    /\ Len(alerts) < MaxAlerts
    /\ alerts' = create_alert(alerts, alert_data, current_user).alerts
    /\ UNCHANGED << engine_vars, service_vars, user_vars, triggered, chat_vars >>

UpdateAlertBy(current_user, alert_id, alert_data) ==
    /\ pc = "loaded"
    /\ alerts' = update_alert(alerts, alert_id, alert_data, current_user).alerts
    /\ UNCHANGED << engine_vars, service_vars, user_vars, triggered, chat_vars >>

DeleteAlertBy(current_user, alert_id) ==
    /\ pc = "loaded"
    /\ alerts' = delete_alert(alerts, alert_id, current_user).alerts
    /\ UNCHANGED << engine_vars, service_vars, user_vars, triggered, chat_vars >>

ToggleAlertStatusBy(current_user, alert_id) ==
    /\ pc = "loaded"
    /\ alerts' = toggle_alert_status(alerts, alert_id, current_user).alerts
    /\ UNCHANGED << engine_vars, service_vars, user_vars, triggered, chat_vars >>

CreateAlert ==
    \E current_user \in UserIds, alert_data \in AlertCreates :
        CreateAlertBy(current_user, alert_data)

UpdateAlert ==
    \E current_user \in UserIds, alert_id \in AlertIds, alert_data \in AlertUpdates :
        UpdateAlertBy(current_user, alert_id, alert_data)

DeleteAlert ==
    \E current_user \in UserIds, alert_id \in AlertIds :
        DeleteAlertBy(current_user, alert_id)

ToggleAlertStatus ==
    \E current_user \in UserIds, alert_id \in AlertIds :
        ToggleAlertStatusBy(current_user, alert_id)

NextAlerts == CreateAlert \/ UpdateAlert \/ DeleteAlert \/ ToggleAlertStatus \/ UploadFile

SpecAlerts == InitAlerts /\ [][NextAlerts]_vars

----------------------------------------------------------------------------
(* The conversation manager called on its own, and the chat route *)

\* add_message calls for the first user and for each other user since a clear; the
\* k-th message added for a user since their last clear has the content k
MaxAdds == 22
MaxOtherAdds == 4

\* the exchanges the first user's history starts with in the chat, the chat requests
\* the first user and each other user make from there, and the handlers that await
\* the chatbot at one time
SeedChats == 9
MaxChats == 3
MaxOtherChats == 1
MaxHandlers == 2

AddsOf(user_id) == IF user_id = 1 THEN MaxAdds ELSE MaxOtherAdds
ChatsOf(user_id) == IF user_id = 1 THEN SeedChats + MaxChats ELSE MaxOtherChats

\* the roles chat_with_ai adds: the odd messages are the user's
RoleOf(content) == IF content % 2 = 1 THEN "user" ELSE "assistant"

InitConversation == EngineIdle /\ ServiceIdle /\ ChatIdle /\ UsersIdle

\* conversation_manager.add_message(user_id, role, content)
AddMessage ==
    \E user_id \in UserIds :
        /\ added[user_id] < AddsOf(user_id)
        /\ LET content == added[user_id] + 1
           IN  conversations' =
                   add_message(conversations, user_id, RoleOf(content), content)
        /\ added' = [added EXCEPT ![user_id] = @ + 1]
        /\ UNCHANGED << engine_vars, service_vars, user_vars, alert_vars, sent, handlers >>

\* conversation_manager.clear_history(user_id), also DELETE /history
ClearHistory ==
    \E user_id \in UserIds :
        /\ conversations' = clear_history(conversations, user_id)
        /\ added' = [added EXCEPT ![user_id] = 0]
        /\ UNCHANGED << engine_vars, service_vars, user_vars, alert_vars, sent, handlers >>

NextConversation == AddMessage \/ ClearHistory

SpecConversation == InitConversation /\ [][NextConversation]_vars

\* chat_with_ai up to await chatbot.chat: the history is cleared when the request
\* asks for it, and the handler waits for the answer to its message
ChatStart ==
    \E user_id \in UserIds, clear \in BOOLEAN :
        /\ sent[user_id] < ChatsOf(user_id)
        /\ Cardinality(handlers) < MaxHandlers
        /\ sent' = [sent EXCEPT ![user_id] = @ + 1]
        /\ handlers' = handlers \cup {[user_id |-> user_id, message |-> sent[user_id] + 1]}
        /\ conversations' = IF clear THEN clear_history(conversations, user_id)
                            ELSE conversations
        /\ added' = IF clear THEN [added EXCEPT ![user_id] = 0] ELSE added
        /\ UNCHANGED << engine_vars, service_vars, user_vars, alert_vars >>

\* chat_with_ai from the answer on: the two add_message calls
ChatFinish ==
    \E h \in handlers :
        /\ handlers' = handlers \ {h}
        /\ conversations' =
               save_exchange(conversations, h.user_id, h.message, AnswerTo(h.message))
        /\ added' = [added EXCEPT ![h.user_id] = @ + 2]
        /\ UNCHANGED << engine_vars, service_vars, user_vars, alert_vars, sent >>

NextChat == ChatStart \/ ChatFinish \/ ClearHistory

\* the history after n chat requests made and answered one after the other
RECURSIVE ExchangesUpTo(_)
ExchangesUpTo(n) ==
    IF n = 0 THEN << >>
    ELSE keep_last(keep_last(ExchangesUpTo(n - 1) \o << Message("user", n) >>)
                   \o << Message("assistant", AnswerTo(n)) >>)

\* the first user has chatted SeedChats times, nobody else has
InitChat ==
    /\ EngineIdle
    /\ ServiceIdle
    /\ conversations = [u \in UserIds |-> IF u = 1 THEN ExchangesUpTo(SeedChats) ELSE << >>]
    /\ added = [u \in UserIds |-> IF u = 1 THEN 2 * SeedChats ELSE 0]
    /\ sent = [u \in UserIds |-> IF u = 1 THEN SeedChats ELSE 0]
    /\ handlers = {}
    /\ UsersIdle

SpecChat == InitChat /\ [][NextChat]_vars

----------------------------------------------------------------------------
(* The state machine of the users table: anyone signs up, a user of the table
   sends requests to the profile routes and to the /api/admin routes *)

\* the addresses people sign up with
Emails == 1..MaxUsers

\* role: Optional[str] of the signup and profile requests
RoleInputs == {"admin", "user", "", NoRole}

\* role: str of UpdateUserRoleRequest
RoleStrings == {"admin", "user", ""}

\* a request that carries no token, no user_id, no role
NoCaller == [id |-> 0, role |-> NoRole, is_active |-> FALSE]

\* the table starts with its administrator, alone or with one more user
InitUsers ==
    /\ EngineIdle
    /\ ServiceIdle
    /\ ChatIdle
    /\ users \in { {[id |-> 1, email |-> 1, role |-> "admin", is_active |-> TRUE]},
                   {[id |-> 1, email |-> 1, role |-> "admin", is_active |-> TRUE],
                    [id |-> 2, email |-> 2, role |-> "user", is_active |-> TRUE]} }
    /\ granted = { user.id : user \in { u \in users : u.role = "admin" } }
    /\ reply = None

\* the request is answered: the table is committed and what was asked is kept
Answered(route, caller, user_id, role, answer) ==
    /\ users' = answer.users
    /\ reply' = [route |-> route, caller |-> caller, user_id |-> user_id, role |-> role,
                 status_code |-> answer.status_code, changed |-> answer.users # users]
    /\ UNCHANGED << engine_vars, service_vars, alert_vars, chat_vars >>

CallerOf(current_user) ==
    [id |-> current_user.id, role |-> current_user.role,
     is_active |-> current_user.is_active]

Signup ==
    /\ fresh_user_id(users) \in UserIds
    /\ \E email \in Emails, role \in RoleInputs :
          Answered("signup", NoCaller, 0, role, signup(users, email, role))
    /\ granted' = granted

AuthUpdateProfile ==
    /\ \E current_user \in users, role \in RoleInputs :
          Answered("auth_update_profile", CallerOf(current_user), 0, role,
                   auth_update_profile(users, role, current_user))
    /\ granted' = granted

SettingsUpdateProfile ==
    /\ \E current_user \in users, role \in RoleInputs :
          Answered("settings_update_profile", CallerOf(current_user), 0, role,
                   settings_update_profile(users, role, current_user))
    /\ granted' = granted

GetAllUsers ==
    /\ \E current_user \in users :
          Answered("get_all_users", CallerOf(current_user), 0, NoRole,
                   get_all_users(users, current_user))
    /\ granted' = granted

GetUserDetails ==
    /\ \E current_user \in users, user_id \in UserIds :
          Answered("get_user_details", CallerOf(current_user), user_id, NoRole,
                   get_user_details(users, user_id, current_user))
    /\ granted' = granted

\* granted: the users an administrator's update_user_role made 'admin' last
UpdateUserRole ==
    \E current_user \in users, user_id \in UserIds, role \in RoleStrings :
        /\ Answered("update_user_role", CallerOf(current_user), user_id, role,
                    update_user_role(users, user_id, role, current_user))
        /\ granted' = IF update_user_role(users, user_id, role, current_user).status_code # 200
                      THEN granted
                      ELSE IF role = "admin" THEN granted \cup {user_id}
                      ELSE granted \ {user_id}

ToggleUserActive ==
    /\ \E current_user \in users, user_id \in UserIds :
          Answered("toggle_user_active", CallerOf(current_user), user_id, NoRole,
                   toggle_user_active(users, user_id, current_user))
    /\ granted' = granted

DeleteUser ==
    \E current_user \in users, user_id \in UserIds :
        /\ Answered("delete_user", CallerOf(current_user), user_id, NoRole,
                    delete_user(users, user_id, current_user))
        /\ granted' = IF delete_user(users, user_id, current_user).status_code = 200
                      THEN granted \ {user_id} ELSE granted

NextUsers ==
    \/ Signup
    \/ AuthUpdateProfile
    \/ SettingsUpdateProfile
    \/ GetAllUsers
    \/ GetUserDetails
    \/ UpdateUserRole
    \/ ToggleUserActive
    \/ DeleteUser

SpecUsers == InitUsers /\ [][NextUsers]_vars




----------------------------------------------------------------------------
(* The alert service called on its own: one call with arguments drawn from   *)
(* bounded sets                                                            *)

CheckValues ==
    {Num(100004), Num(100020), Num(100000), Num(100010), Num(99990), Num(99991),
     Num(0), Num(-5), NaNValue}
CheckThresholds == {Num(100000), Num(0), NaNValue}
Conditions == {"greater_than", "less_than", "equals", "not_equals", "between"}

Metrics ==
    {"revenue_total", "high_leakage", "leakage_percentage", "negative_revenue",
     "zero_revenue", "missing_data", "duplicate_transactions", "data_quality_score",
     "excessive_costs", "profit_margin", "total_costs", "net_profit", "revenue_drop"}

\* leakage data: missing, empty, malformed, the stored record and well-formed lists
LeakageInputs ==
    {LeakNone, LeakEmptyText, LeakBadText, LeakRecord, LeakList(<< >>),
     LeakList(<< LeakDict("Zero Revenue Transactions", Num(0), Num(2 * Milli)),
                 LeakDict("Excessive Costs", Num(500 * Milli), Num(Milli)) >>),
     LeakList(<< LeakDict("Duplicate Transactions", Str(1), Str(1)) >>),
     LeakList(<< LeakDict("Negative Revenue Values", Absent, Absent) >>),
     LeakList(<< LeakDict("Negative Revenue", NaNValue, Num(Milli)) >>),
     LeakList(<< LeakStr("n/a") >>)}

\* data summaries: missing, empty, malformed and well-formed
SummaryInputs ==
    {SummaryNone, SummaryDict(Absent, << >>), SummaryDict(PyNone, << 1 >>),
     SummaryDict(FinancialSummary("total_revenue", Num(1000 * Milli)), << 0, 2 >>),
     SummaryDict(FinancialSummary("total_revenue", Str(1)), << >>),
     SummaryDict(FinancialSummary("net_profit", PyNone), << >>)}

MaxTotalRows == 2

\* the findings lists _analyze_data_for_leakages comes to on the general datasets
\* (the ids drawn make no difference to a metric)
AnalyzerCalls ==
    { [fn |-> "calculate_metric_value", metric |-> m,
       upload_data |-> [total_rows |-> NRows(d)],
       leakage_data |->
           LeakList([i \in 1..Len(upload_findings(d, upload_columns(d))) |->
                        LeakOf(upload_findings(d, upload_columns(d))[i])]),
       data_summary |-> data_summary_of(d)] :
          m \in DOMAIN count_metric_type,
          d \in { f \in GeneralDataFrames : ~duplicated_raises(f) } }

ServiceCalls ==
    { [fn |-> "check_condition", current_value |-> v, condition |-> c,
       threshold |-> t] :
          v \in CheckValues, c \in Conditions, t \in CheckThresholds }
    \cup
    { [fn |-> "calculate_metric_value", metric |-> m,
       upload_data |-> [total_rows |-> n], leakage_data |-> l, data_summary |-> s] :
          m \in Metrics, n \in {0, MaxTotalRows}, l \in LeakageInputs,
          s \in SummaryInputs }
    \cup AnalyzerCalls

InitService ==
    /\ call \in ServiceCalls
    /\ result = None
    /\ EngineIdle
    /\ ChatIdle
    /\ UsersIdle

\* check_condition(current_value, condition, threshold)
CheckCondition ==
    /\ call.fn = "check_condition"
    /\ result = None
    /\ result' = IF check_condition_raises(call.current_value, call.condition,
                                           call.threshold) THEN Raised
                 ELSE [status |-> "ok",
                       value |-> check_condition(call.current_value, call.condition,
                                                 call.threshold)]
    /\ UNCHANGED << call, engine_vars, user_vars, alert_vars, chat_vars >>

\* calculate_metric_value(metric, upload_data, leakage_data, data_summary)
CalculateMetricValue ==
    /\ call.fn = "calculate_metric_value"
    /\ result = None
    /\ result' = [status |-> "ok",
                  value |-> calculate_metric_value(call.metric, call.upload_data,
                                                   call.leakage_data,
                                                   call.data_summary)]
    /\ UNCHANGED << call, engine_vars, user_vars, alert_vars, chat_vars >>

NextService == CheckCondition \/ CalculateMetricValue

SpecService == InitService /\ [][NextService]_vars

----------------------------------------------------------------------------
(* Properties *)

\* the findings of a report without their ids
StripIds(items) == { [f EXCEPT !.id = 0] : f \in Range(items) }

Analyzed == pc \in {"analyzed", "reanalyzed"}

\* total_amount == sum of the amounts, total_leakages == len(items)
TotalsMatch(r) ==
    /\ FloatEq(r.total_amount, sum_amounts(r.items))
    /\ r.total_leakages = Len(r.items)

\* C1: in the report of analyze_complete and in the report of
\* _analyze_data_for_leakages, total_amount equals the sum of the amounts of the
\* items and total_leakages equals their number.
C1_TotalsMatchItems ==
    /\ report.status = "ok" => TotalsMatch(report)
    /\ upload.status = "completed" => TotalsMatch(upload.leakage_data)

NonNegative(items) ==
    \A i \in 1..Len(items) :
        FloatGe(items[i].amount, Float(0)) /\ items[i].affected_rows >= 0

\* C2: every finding of every report has amount >= 0 and affected_rows >= 0.
C2_AmountsNonNegative ==
    /\ report.status = "ok" => NonNegative(report.items)
    /\ upload.status = "completed" => NonNegative(upload.leakage_data.items)

\* the findings of the analyzers of analyze_complete that do not raise on d
FindingsOfTheOthers(d) ==
    LET cols == detect_columns(d)
    IN  Range(analyze_negative_revenue(d, cols["revenue"]))
        \cup Range(analyze_excessive_discounts(d, cols["discount"], cols["revenue"]))
        \cup Range(analyze_missing_data(d, cols["revenue"], cols["cost"]))
        \cup (IF duplicated_raises(d) THEN {}
              ELSE Range(analyze_duplicates(d, cols["revenue"])))
        \cup Range(analyze_pricing_inconsistencies(d, cols["product"], cols["revenue"]))
        \cup Range(analyze_customer_concentration(d, cols["customer"], cols["revenue"]))

\* C3: analyze_complete never leaves by an exception of one of its analyzers: it
\* returns a report whose items are the findings of the analyzers that did not raise.
C3_AnalyzerFailureIsolated ==
    Analyzed =>
        /\ report.status = "ok"
        /\ StripIds(report.items) = FindingsOfTheOthers(df)

EmptyReport(r) ==
    /\ r.total_leakages = 0
    /\ FloatEq(r.total_amount, Float(0))
    /\ r.items = << >>

\* C4: on a dataset with no rows, whatever its columns, analyze_complete and
\* _analyze_data_for_leakages return a report with no items and totals 0.
C4_EmptyDatasetEmptyReport ==
    NRows(df) = 0 =>
        /\ Analyzed => report.status = "ok" /\ EmptyReport(report)
        /\ pc = "uploaded" =>
              upload.status = "completed" /\ EmptyReport(upload.leakage_data)

C4_Witness ==
    /\ pc = "uploaded"
    /\ NRows(df) = 0
    /\ df.columns = << "Revenue", "Product" >>
    /\ df.dtypes = << "float64", "object" >>
    /\ upload.status = "completed"

SortedByAmount(items) ==
    \A i, j \in 1..Len(items) :
        (i < j /\ ~items[i].amount.nan /\ ~items[j].amount.nan) =>
            items[i].amount.c >= items[j].amount.c

\* C6: the items of the report of analyze_complete and of the report the upload
\* pipeline gets are in non-increasing order of amount, so the top_issues of the
\* upload response are findings of largest amount.
C6_ItemsSortedByAmount ==
    /\ report.status = "ok" => SortedByAmount(report.items)
    /\ upload.status = "completed" =>
          /\ SortedByAmount(upload.leakage_data.items)
          /\ SortedByAmount(upload.leakage_summary.top_issues)

DistinctIds(items) ==
    \A i, j \in 1..Len(items) : i # j => items[i].id # items[j].id

\* C7: no two findings of one report have the same id, whatever the uuid draws.
C7_IdsUniqueInReport ==
    /\ report.status = "ok" => DistinctIds(report.items)
    /\ upload.status = "completed" => DistinctIds(upload.leakage_data.items)

NumericRoles == {"revenue", "discount", "cost", "quantity"}

\* the columns of d that sit in a numeric role and are not of a numeric dtype
NonNumericInNumericRole(d) ==
    { col \in Range(d.columns) :
        /\ ~is_numeric_dtype(d, col)
        /\ \E role \in NumericRoles : col \in Range(detect_columns(d)[role]) }

\* the role sets of d with those columns taken out of the numeric roles
WithoutNonNumeric(d) ==
    [role \in Range(RoleNames) |->
        IF role \in NumericRoles
        THEN SelectSeq(detect_columns(d)[role], LAMBDA col : is_numeric_dtype(d, col))
        ELSE detect_columns(d)[role]]

\* C8: when a column in a numeric role holds text, analyze_complete reports for the
\* other columns the findings it would report were that column in no numeric role
\* (datasets on which df.duplicated() raises are left to C3).
C8_NonNumericColumnSkipped ==
    (Analyzed /\ NonNumericInNumericRole(df) # {} /\ ~duplicated_raises(df)) =>
        /\ report.status = "ok"
        /\ { f \in StripIds(report.items) : f.column \notin NonNumericInNumericRole(df) }
             = { f \in Range(enhanced_findings(df, WithoutNonNumeric(df))) :
                   f.column \notin NonNumericInNumericRole(df) }

\* the sum of the first revenue column of d
TotalRevenue(d) == series_sum(Column(d, detect_columns(d)["revenue"][1]))

\* C9: when the total revenue is 0 the share of the top customer counts as 0, so
\* analyze_complete reports no customer concentration.
C9_ZeroDenominatorGuarded ==
    (Analyzed /\ report.status = "ok" /\ detect_columns(df)["revenue"] # << >>
       /\ TotalRevenue(df) = 0) =>
        \A f \in Range(report.items) : f.type # "Customer Concentration Risk"

\* a keyword of the role is in the normalized name, or the normalized name in a keyword
MatchesRole(col, role) ==
    \E i \in 1..Len(Keywords(role)) :
        \/ str_in(Keywords(role)[i], normalize(col))
        \/ str_in(normalize(col), Keywords(role)[i])

\* MatchesRole on every name of the pool, evaluated once
RoleMatches ==
    [col \in ColumnPool |-> [role \in Range(RoleNames) |-> MatchesRole(col, role)]]

\* C10: detect_columns returns, for each of the nine roles, the columns of the dataset
\* that match the role (a keyword in the normalized name or the normalized name in a
\* keyword), in the order of the dataset; a role without a match has the empty list;
\* and the result is that of any dataset with the same column names.
C10_DetectColumnsByName ==
    pc = "classified" =>
        /\ DOMAIN columns = Range(RoleNames)
        /\ \A role \in Range(RoleNames) :
              columns[role] = SelectSeq(df.columns, LAMBDA col : RoleMatches[col][role])
        /\ columns = detect_columns([columns |-> df.columns,
                                     dtypes |-> [i \in 1..Len(df.columns) |-> "object"],
                                     data |-> << >>])

\* "ID" is in the refund role because it is a substring of the keyword "void";
\* "Net_Income", normalized to "net income", is in the revenue role through "income"
C10_Witness ==
    /\ pc = "classified"
    /\ df.columns = << "Net_Income", "ID" >>
    /\ columns["refund"] = << "ID" >>
    /\ columns["revenue"] = << "Net_Income" >>
    /\ columns["cost"] = << >>

\* the findings of a report of the given type for the given column, by position
FindingsFor(items, type, col) ==
    { i \in 1..Len(items) : items[i].type = type /\ items[i].column = col }

\* C11: no column is both in the revenue role and in the cost role, in the role set
\* of detect_columns and in the columns_analyzed of either report.
C11_RevenueCostDisjoint ==
    /\ pc = "classified" =>
          Range(columns["revenue"]) \cap Range(columns["cost"]) = {}
    /\ report.status = "ok" =>
          Range(report.columns_analyzed.revenue_columns)
              \cap Range(report.columns_analyzed.cost_columns) = {}
    /\ upload.status = "completed" =>
          Range(upload.leakage_data.columns_analyzed.revenue_columns)
              \cap Range(upload.leakage_data.columns_analyzed.cost_columns) = {}

\* the rows of column col of d that hold a number below 0
NegativeRows(d, col) ==
    { r \in 1..NRows(d) : Column(d, col)[r].kind = "num" /\ Column(d, col)[r].val < 0 }

\* the sum of column col of d over the rows of the set rows that hold a number
SumOver(d, col, rows) ==
    SumSeq([r \in 1..NRows(d) |->
              IF r \in rows /\ Column(d, col)[r].kind = "num"
              THEN Column(d, col)[r].val ELSE 0])

\* C12: the report of analyze_complete has, for each numeric revenue column, one
\* Negative Revenue finding if the column has a value below 0 and none otherwise;
\* the finding counts the negative rows, its amount is 1.25 times the absolute sum of
\* the negative values, and its severity is critical above 10% of the rows, high
\* above 5%, else medium.
C12_NegativeRevenueFinding ==
    (Analyzed /\ report.status = "ok") =>
        \A col \in Range(df.columns) :
            LET neg == NegativeRows(df, col)
                fs == FindingsFor(report.items, "Negative Revenue", col)
                in_role == col \in Range(detect_columns(df)["revenue"])
            IN  IF in_role /\ is_numeric_dtype(df, col) /\ neg # {}
                THEN /\ Cardinality(fs) = 1
                     /\ \A i \in fs :
                          /\ report.items[i].affected_rows = Cardinality(neg)
                          /\ report.items[i].amount = Float(125 * Abs(SumOver(df, col, neg)))
                          /\ report.items[i].severity =
                                IF 100 * Cardinality(neg) > 10 * NRows(df) THEN "critical"
                                ELSE IF 100 * Cardinality(neg) > 5 * NRows(df) THEN "high"
                                ELSE "medium"
                ELSE fs = {}

\* the dataset [100, -50, 200]: one finding, affected_rows 1, amount 62.50
C12_Witness ==
    /\ Analyzed
    /\ df.data = << << Num(100) >>, << Num(-50) >>, << Num(200) >> >>
    /\ report.status = "ok"
    /\ \E i \in 1..Len(report.items) :
          /\ report.items[i].type = "Negative Revenue"
          /\ report.items[i].affected_rows = 1
          /\ report.items[i].amount = Float(6250)
          /\ report.items[i].severity = "critical"

\* the numbers of column col of d
NumbersOf(d, col) == Values(Column(d, col))

\* total discount of column col: the absolute value of the sum of its numbers
TotalDiscount(d, col) == Abs(SumSeq(NumbersOf(d, col)))

\* the sum of the first numeric revenue column of d, 0 when there is none
FirstRevenueTotal(d) ==
    LET numeric == SelectSeq(detect_columns(d)["revenue"],
                             LAMBDA c : is_numeric_dtype(d, c))
    IN  IF numeric = << >> THEN 0 ELSE SumSeq(NumbersOf(d, numeric[1]))

\* discount_percentage of column col exceeds limit; the percentage is 0 when the
\* revenue total is not positive
DiscountPctAbove(d, col, limit) ==
    /\ FirstRevenueTotal(d) > 0
    /\ 100 * TotalDiscount(d, col) > limit * FirstRevenueTotal(d)

\* the number of values of col that exceed, in absolute value, twice the mean
HighDiscounts(d, col) ==
    LET xs == NumbersOf(d, col)
    IN  Cardinality({ i \in 1..Len(xs) :
                        Abs(xs[i]) * Len(xs) > 2 * Abs(SumSeq(xs)) })

\* C13: the report of analyze_complete has one Excessive Discounts finding for a
\* numeric discount column exactly when its discount percentage is above 15 or more
\* than 10% of the rows hold a value above twice the mean; the severity of the
\* finding is high exactly when the percentage is above 20, else medium.
C13_ExcessiveDiscountFinding ==
    (Analyzed /\ report.status = "ok") =>
        \A col \in Range(detect_columns(df)["discount"]) :
            is_numeric_dtype(df, col) =>
                LET fs == FindingsFor(report.items, "Excessive Discounts", col)
                IN  IF \/ DiscountPctAbove(df, col, 15)
                       \/ 10 * HighDiscounts(df, col) > NRows(df)
                    THEN /\ Cardinality(fs) = 1
                         /\ \A i \in fs :
                              report.items[i].severity =
                                  IF DiscountPctAbove(df, col, 20) THEN "high" ELSE "medium"
                    ELSE fs = {}

\* C14: the amount of an Excessive Discounts finding is the sum of the absolute
\* values of the entries of its discount column.
C14_DiscountTotalIsSumOfAbs ==
    (Analyzed /\ report.status = "ok") =>
        \A i \in 1..Len(report.items) :
            report.items[i].type = "Excessive Discounts" =>
                LET xs == NumbersOf(df, report.items[i].column)
                IN  report.items[i].amount
                        = Float(100 * SumSeq([k \in 1..Len(xs) |-> Abs(xs[k])]))

\* the rows of column col of d that hold no value
NullRows(d, col) == { r \in 1..NRows(d) : Column(d, col)[r].kind = "null" }

\* C15: the report of analyze_complete has one Missing Data finding for each revenue
\* or cost column with a null and none for any other column; the finding counts the
\* nulls, has severity high for a revenue column and medium for a cost column, and
\* its amount is the mean of the non-null values times the number of nulls for a
\* revenue column and 0 for a cost column.
C15_MissingDataFinding ==
    (Analyzed /\ report.status = "ok") =>
        \A col \in Range(df.columns) :
            LET fs == FindingsFor(report.items, "Missing Data", col)
                nulls == Cardinality(NullRows(df, col))
                xs == NumbersOf(df, col)
                in_revenue == col \in Range(detect_columns(df)["revenue"])
                in_cost == col \in Range(detect_columns(df)["cost"])
            IN  IF (in_revenue \/ in_cost) /\ nulls > 0
                THEN /\ Cardinality(fs) = 1
                     /\ \A i \in fs :
                          /\ report.items[i].affected_rows = nulls
                          /\ report.items[i].severity = IF in_revenue THEN "high" ELSE "medium"
                          /\ ~in_revenue => report.items[i].amount = Float(0)
                          /\ (in_revenue /\ is_numeric_dtype(df, col) /\ xs # << >>) =>
                                report.items[i].amount
                                    = Float((100 * SumSeq(xs) * nulls) \div Len(xs))
                ELSE fs = {}

\* the rows of d that have an identical row elsewhere, the first occurrence included
RowsWithATwin(d) ==
    { r \in 1..NRows(d) : \E q \in 1..NRows(d) : q # r /\ d.data[q] = d.data[r] }

\* one Duplicate Transactions finding that counts the rows with a twin and is worth
\* half their revenue (in absolute value)
DuplicateFindingOf(items, d) ==
    LET fs == { i \in 1..Len(items) : items[i].type = "Duplicate Transactions" }
    IN  /\ Cardinality(fs) = 1
        /\ \A i \in fs :
              /\ items[i].affected_rows = Cardinality(RowsWithATwin(d))
              /\ ~items[i].amount.nan
              /\ Abs(items[i].amount.c) = Abs(50 * SumOver(d, "Revenue", RowsWithATwin(d)))

\* C16: on a dataset with identical rows, whose first revenue column is the numeric
\* column Revenue, analyze_complete and _analyze_data_for_leakages report a single
\* Duplicate Transactions finding; its affected_rows is the number of rows that have
\* an identical row elsewhere and its amount half the revenue of those rows.
C16_DuplicateFinding ==
    (/\ RowsWithATwin(df) # {}
     /\ df.columns[1] = "Revenue"
     /\ is_numeric_dtype(df, "Revenue")) =>
        /\ (Analyzed /\ report.status = "ok") => DuplicateFindingOf(report.items, df)
        /\ upload.status = "completed" =>
              DuplicateFindingOf(upload.leakage_data.items, df)

\* the customers of d and the revenue of each
CustomersOf(d) == { Column(d, "Customer")[r] : r \in 1..NRows(d) }

RevenueOfCustomer(d, c) ==
    SumOver(d, "Revenue", { r \in 1..NRows(d) : Column(d, "Customer")[r] = c })

\* the largest revenue of a customer of d
TopRevenue(d) ==
    LET top == CHOOSE c \in CustomersOf(d) :
                   \A b \in CustomersOf(d) : RevenueOfCustomer(d, b) <= RevenueOfCustomer(d, c)
    IN  RevenueOfCustomer(d, top)

\* the share of the top customer in the total revenue is above 30%; the share is 0
\* when the total is 0
TopShareAbove30(d) ==
    LET total == SumOver(d, "Revenue", 1..NRows(d))
    IN  /\ total # 0
        /\ IF total > 0 THEN 100 * TopRevenue(d) > 30 * total
                        ELSE 100 * TopRevenue(d) < 30 * total

\* C17: on a dataset with the columns Customer and Revenue, analyze_complete reports
\* customer concentration exactly when there are more than 5 customers and the one
\* with the largest revenue holds more than 30% of the total; the finding has amount
\* half that customer's revenue, severity high and category Business Risk.
C17_CustomerConcentrationFinding ==
    (/\ Analyzed /\ report.status = "ok"
     /\ df.columns = << "Customer", "Revenue" >> /\ NRows(df) > 0) =>
        LET fs == { i \in 1..Len(report.items) :
                      report.items[i].type = "Customer Concentration Risk" }
        IN  IF Cardinality(CustomersOf(df)) > 5 /\ TopShareAbove30(df)
            THEN /\ Cardinality(fs) = 1
                 /\ \A i \in fs :
                      /\ report.items[i].amount = Float(50 * TopRevenue(df))
                      /\ report.items[i].severity = "high"
                      /\ report.items[i].category = "Business Risk"
            ELSE fs = {}

\* the rows of column col of d that hold the number 0
ZeroRows(d, col) ==
    { r \in 1..NRows(d) : Column(d, col)[r] = Num(0) }

\* C18: for each numeric revenue column with a value equal to 0, the report of
\* analyze_complete has a zero-revenue finding for the column, with severity medium,
\* amount 0 and affected_rows the number of zero rows.
C18_ZeroRevenueFinding ==
    (Analyzed /\ report.status = "ok") =>
        \A col \in Range(detect_columns(df)["revenue"]) :
            (is_numeric_dtype(df, col) /\ ZeroRows(df, col) # {}) =>
                \E i \in 1..Len(report.items) :
                    /\ report.items[i].type \in {"Zero Revenue", "Zero Revenue Transactions"}
                    /\ report.items[i].column = col
                    /\ report.items[i].severity = "medium"
                    /\ report.items[i].amount = Float(0)
                    /\ report.items[i].affected_rows = Cardinality(ZeroRows(df, col))

\* the detection category of a finding type of either analyzer
DetectionCategory(type) ==
    CASE type \in {"Excessive Discounts", "Excessive Discounting"} -> "excessive discount"
      [] type \in {"Zero Revenue", "Zero Revenue Transactions"} -> "zero revenue"
      [] type \in {"Negative Quantities", "Zero Quantities"} -> "negative or zero quantity"
      [] OTHER -> type

\* C19: every detection category in which _analyze_data_for_leakages reports a
\* finding on a dataset is a category in which analyze_complete reports one on it.
C19_EnhancedCoversBaseline ==
    (upload.status = "completed" /\ ~duplicated_raises(df)) =>
        \A f \in Range(upload.leakage_data.items) :
            \E g \in Range(enhanced_findings(df, detect_columns(df))) :
                DetectionCategory(g.type) = DetectionCategory(f.type)

----------------------------------------------------------------------------
(* Properties of the alert service *)

CheckConditionCalled == result # None /\ call.fn = "check_condition"

\* |value - threshold| < 0.01 on the reals; no distance from nan is below 0.01
WithinTolerance(v, t) ==
    v.kind = "num" /\ t.kind = "num" /\ Abs(v.val - t.val) < Tolerance

\* C21: check_condition returns value > threshold for greater_than, value < threshold
\* for less_than, |value - threshold| < 0.01 for equals, the exact negation of the
\* equals result for not_equals, and false for any other operator; equals holds for
\* (100.004, 100.0) and fails for (100.02, 100.0).
C21_CheckConditionTable ==
    CheckConditionCalled =>
        LET v == call.current_value
            t == call.threshold
            numbers == v.kind = "num" /\ t.kind = "num"
        IN  /\ result.status = "ok"
            /\ result.value =
                  CASE call.condition = "greater_than" -> numbers /\ v.val > t.val
                    [] call.condition = "less_than" -> numbers /\ v.val < t.val
                    [] call.condition = "equals" -> WithinTolerance(v, t)
                    [] call.condition = "not_equals" -> ~WithinTolerance(v, t)
                    [] OTHER -> FALSE

\* the same for the calls whose value and threshold are not nan
C21_CheckConditionTableWithoutNaN ==
    (/\ CheckConditionCalled
     /\ call.current_value.kind = "num"
     /\ call.threshold.kind = "num") => C21_CheckConditionTable

MetricValueCalled == result # None /\ call.fn = "calculate_metric_value"

\* C22: calculate_metric_value never raises: it returns 0 for a metric outside the
\* supported set, and a number for a supported metric on missing, empty or malformed
\* leakage data or data summary.
C22_MetricValueIsANumber ==
    MetricValueCalled =>
        /\ result.status = "ok"
        /\ IsNumber(result.value)
        /\ call.metric = "revenue_drop" => result.value = Num(0)

\* the same for the metrics that are not read from financial_summary
C22_ComputedMetricIsANumber ==
    (MetricValueCalled /\ call.metric \notin DOMAIN financial_metric_key)
        => C22_MetricValueIsANumber

\* the type the analyzer gives the findings each count metric is about
FindingTypeOfMetric ==
    [negative_revenue |-> "Negative Revenue",
     zero_revenue |-> "Zero Revenue Transactions",
     duplicate_transactions |-> "Duplicate Transactions",
     excessive_costs |-> "Excessive Costs"]

\* the sum of affected_rows over the elements of one type
RECURSIVE AffectedRowsOf(_, _)
AffectedRowsOf(items, type) ==
    IF items = << >> THEN 0
    ELSE AffectedRowsOf(Tail(items), type)
         + (IF items[1].type = type THEN items[1].affected_rows.val ELSE 0)

AnalyzerMetricCalled == MetricValueCalled /\ call \in AnalyzerCalls

\* C23: on the findings list of a report of _analyze_data_for_leakages each count
\* metric equals the sum of affected_rows over the findings of its kind:
\* negative_revenue over the negative-revenue findings, zero_revenue over the
\* zero-revenue ones, duplicate_transactions over the duplicate ones and
\* excessive_costs over the excessive-cost ones.
C23_CountMetricsMatchFindings ==
    AnalyzerMetricCalled =>
        result.value = Num(AffectedRowsOf(call.leakage_data.items,
                                          FindingTypeOfMetric[call.metric]))

\* the same for the three other count metrics
C23_OtherCountMetricsMatchFindings ==
    (AnalyzerMetricCalled /\ call.metric # "negative_revenue")
        => C23_CountMetricsMatchFindings

----------------------------------------------------------------------------
(* Properties of the alerts *)

\* an upload was completed and its alerts evaluated without a failure of the session
Evaluated == triggered # None /\ ~triggered.rolled_back

\* the alert belongs to the uploading user and was active at the upload (no route is
\* called after the upload, so the table is the one the upload read)
ActiveForUploader(alert) == alert.user_id = triggered.user_id /\ alert.is_active

\* check_condition holds on the metric value computed for the alert
ConditionHolds(alert) ==
    check_condition(current_value_of(alert, UploadedData(df)), alert.condition,
                    alert.threshold)

AlertIdsOf(rows) == [i \in 1..Len(rows) |-> rows[i].alert_id]

\* C24: evaluate_alerts_on_upload returns exactly one event for each alert that
\* belongs to the uploading user, is active at the upload and whose check_condition
\* on the computed metric value is true, whatever its notify_in_app and notify_email;
\* it returns no event for an inactive alert, another user's alert or an alert whose
\* condition is false.
C24_OneEventPerDueAlert ==
    Evaluated =>
        AlertIdsOf(triggered.events)
            = AlertIdsOf(SelectSeq(alerts, LAMBDA alert :
                             ActiveForUploader(alert) /\ ConditionHolds(alert)))

\* the same with the alerts that notify in the app left out
C24_OneEventPerDueAlertWithoutInApp ==
    Evaluated =>
        AlertIdsOf(triggered.events)
            = AlertIdsOf(SelectSeq(alerts, LAMBDA alert :
                             /\ ActiveForUploader(alert)
                             /\ ConditionHolds(alert)
                             /\ ~alert.notify_in_app))

\* the evaluation of the alert raised in the loop
RaisedInLoop(alert) ==
    ActiveForUploader(alert) /\ evaluation_raises(alert, UploadedData(df))

\* C25: an exception raised while one alert is evaluated affects only that alert:
\* every other active alert of the user is evaluated and reported when its condition
\* holds; a failure outside the loop rolls the session back and returns an empty
\* list; notifications are committed only when at least one alert triggered.
C25_FailureIsolatedPerAlert ==
    triggered # None =>
        /\ Evaluated =>
              AlertIdsOf(triggered.events)
                  = AlertIdsOf(SelectSeq(alerts, LAMBDA alert :
                                   /\ ActiveForUploader(alert)
                                   /\ ~RaisedInLoop(alert)
                                   /\ ConditionHolds(alert)))
        /\ triggered.rolled_back =>
              /\ triggered.events = << >>
              /\ triggered.notifications = << >>
              /\ ~triggered.committed
        /\ triggered.committed => triggered.events # << >>
        /\ triggered.notifications # << >> => triggered.committed

\* an alert raised and a later alert of the same user was reported
C25_Witness ==
    /\ Evaluated
    /\ \E i, j \in 1..Len(alerts) :
          /\ i < j
          /\ RaisedInLoop(alerts[i])
          /\ \E e \in 1..Len(triggered.events) :
                triggered.events[e].alert_id = alerts[j].alert_id

\* the alert with this id belongs to another user than u, or to u
OwnedByAnother(alert_id, u) ==
    \E i \in 1..Len(alerts) : alerts[i].alert_id = alert_id /\ alerts[i].user_id # u
OwnedBy(alert_id, u) ==
    \E i \in 1..Len(alerts) : alerts[i].alert_id = alert_id /\ alerts[i].user_id = u

\* the route leaves owner, metric and condition of every row it keeps
KeepsIdentity(answer) ==
    \A i \in 1..Len(alerts), j \in 1..Len(answer.alerts) :
        alerts[i].alert_id = answer.alerts[j].alert_id =>
            /\ answer.alerts[j].user_id = alerts[i].user_id
            /\ answer.alerts[j].metric = alerts[i].metric
            /\ answer.alerts[j].condition = alerts[i].condition

\* the answer is 404 and the table is the one before
NotFound(answer) == answer.response.status_code = 404 /\ answer.alerts = alerts

\* C30: update_alert, delete_alert and toggle_alert_status issued on an alert of
\* another user answer 404 and leave every alert unchanged; issued by the owner,
\* toggle_alert_status changes only that alert's is_active, so two consecutive
\* toggles restore it; no request changes an alert's owner, metric or condition.
\* It is stated of every request that can be issued on the table of a state in
\* which the routes are called: the route actions set alerts' to the table of these
\* answers. (updated_at is not part
\* of the rows of the model.)
C30_AlertRoutesRespectOwnership ==
    pc = "loaded" => \A u \in UserIds :
        /\ \A alert_data \in AlertCreates : KeepsIdentity(create_alert(alerts, alert_data, u))
        /\ \A alert_id \in AlertIds :
              LET toggled == toggle_alert_status(alerts, alert_id, u)
                  deleted == delete_alert(alerts, alert_id, u)
              IN  /\ KeepsIdentity(toggled) /\ KeepsIdentity(deleted)
                  /\ \A alert_data \in AlertUpdates :
                        /\ KeepsIdentity(update_alert(alerts, alert_id, alert_data, u))
                        /\ OwnedByAnother(alert_id, u) =>
                              NotFound(update_alert(alerts, alert_id, alert_data, u))
                  /\ OwnedByAnother(alert_id, u) => NotFound(toggled) /\ NotFound(deleted)
                  /\ OwnedBy(alert_id, u) =>
                        /\ toggled.response.status_code = 200
                        /\ Len(toggled.alerts) = Len(alerts)
                        /\ \A i \in 1..Len(alerts) :
                              toggled.alerts[i] =
                                  IF alerts[i].alert_id = alert_id
                                  THEN [alerts[i] EXCEPT !.is_active = ~alerts[i].is_active]
                                  ELSE alerts[i]
                        /\ toggle_alert_status(toggled.alerts, alert_id, u).alerts = alerts

\* two alerts of two owners, one of them switched off
C30_Witness ==
    \E i, j \in 1..Len(alerts) :
        /\ alerts[i].user_id # alerts[j].user_id
        /\ ~alerts[i].is_active
        /\ alerts[j].is_active

----------------------------------------------------------------------------
(* Properties of the chatbot *)

\* the last min(n, 20) of the n messages added: the k-th one has the content k
LastMessages(n) ==
    LET kept == IF n > MaxHistory THEN MaxHistory ELSE n
    IN  [i \in 1..kept |-> Message(RoleOf(n - kept + i), n - kept + i)]

\* C26: after any sequence of add_message and clear_history calls each user's
\* history has at most 20 messages and equals, in order, the last min(n, 20) of the
\* n messages added for that user since their last clear_history; a call for one
\* user never changes the history of another (for whom no message is added).
C26_HistoryIsTheLastTwenty ==
    /\ [](\A u \in UserIds :
            /\ Len(conversations[u]) <= MaxHistory
            /\ conversations[u] = LastMessages(added[u]))
    /\ [][\A u \in UserIds :
            added'[u] = added[u] => conversations'[u] = conversations[u]]_vars

\* the first user's list was cut and another user has messages of their own
C26_Witness ==
    /\ added[1] > MaxHistory + 1
    /\ Len(conversations[1]) = MaxHistory
    /\ \E u \in UserIds : u # 1 /\ Len(conversations[u]) = MaxOtherAdds

\* C28: under any interleaving of concurrent chat_with_ai requests, whenever no
\* handler is between its two add_message calls (the two calls are one step: there
\* is no await between them), each user's stored history has even length and is made
\* of consecutive pairs of a user message and the assistant's answer to that
\* message, also after the cut to 20 messages.
C28_HistoryIsMadeOfExchanges ==
    \A u \in UserIds :
        /\ Len(conversations[u]) % 2 = 0
        /\ \A k \in 1..(Len(conversations[u]) \div 2) :
              /\ conversations[u][2 * k - 1].role = "user"
              /\ conversations[u][2 * k] =
                     Message("assistant", AnswerTo(conversations[u][2 * k - 1].content))

\* the first user's list was cut, two of its exchanges were stored in the other
\* order than they were sent, and a request is still waiting
C28_Witness ==
    /\ Len(conversations[1]) = MaxHistory
    /\ conversations[1][1].content > 1
    /\ \E k \in 1..(MaxHistory \div 2 - 1) :
          conversations[1][2 * k + 1].content < conversations[1][2 * k - 1].content
    /\ handlers # {}


----------------------------------------------------------------------------
(* The users table *)

AdminRoutes ==
    {"get_all_users", "get_user_details", "update_user_role", "toggle_user_active",
     "delete_user"}

\* the last request was sent by an administrator
AdminAsked == reply # None /\ reply.caller.role = "admin"

\* the row of the one who sent the last request, as it is now
CallerNow == { user \in users : user.id = reply.caller.id }

\* C27: an administrator's own request never takes their role 'admin' away, never
\* deactivates and never deletes their account: update_user_role to another role,
\* toggle_user_active and delete_user on the caller's own id answer 400 and change
\* nothing, and after any request of an administrator their row is still there,
\* still 'admin' and as active as before
C27_AdminKeepsTheirOwnAccount ==
    AdminAsked =>
        /\ \E user \in CallerNow :
               user.role = "admin" /\ user.is_active = reply.caller.is_active
        /\ (/\ reply.user_id = reply.caller.id
            /\ \/ reply.route \in {"toggle_user_active", "delete_user"}
               \/ reply.route = "update_user_role" /\ reply.role # "admin")
           => reply.status_code = 400 /\ ~reply.changed

\* C29: whoever holds the role 'admin' is among the users an administrator's
\* update_user_role made 'admin' (or was 'admin' from the start), and a request to
\* an /api/admin route by someone who is not 'admin' is answered 403 and changes
\* no user
C29_AdminOnlyByGrant ==
    /\ \A user \in users : user.role = "admin" => user.id \in granted
    /\ (reply # None /\ reply.route \in AdminRoutes /\ reply.caller.role # "admin")
       => reply.status_code = 403 /\ ~reply.changed

============================================================================
